---- MODULE Spec2Model ----
(***************************************************************************)
(* Model of simples3 (rhnvrm/simples3): the multipart upload coordinator   *)
(* (FileUploadMultipart, its sequential and parallel part uploaders, the   *)
(* per-part retry loop), the instance-metadata credential refresh, and the *)
(* request-building functions (signRequest's payload hash, encodePath, the *)
(* POST policy conditions, the signed headers of a presigned URL).         *)
(*                                                                         *)
(* Go errors are modelled by their Error() text (TLA+ strings); nil is the *)
(* empty string.  Sizes are counted in KiB: TLC integers are 32 bit wide   *)
(* and 10001 parts of 5 MiB do not fit in bytes.  Every size drawn by the  *)
(* model is a whole number of units, and the code's arithmetic on sizes    *)
(* (ceil, slice bounds, comparisons) does not depend on the unit.          *)
(***************************************************************************)
EXTENDS Integers, Sequences, FiniteSets, Bags, TLC

(***************************************************************************)
(* Program constants (multipart.go, const block).                          *)
(***************************************************************************)
MinPartSize == 5 * 1024
DefaultPartSize == 5 * 1024
MaxParts == 10000
DefaultMaxRetries == 3

(***************************************************************************)
(* Bounds of the model.                                                    *)
(***************************************************************************)
\* operations that run on one client, each in its own goroutine
NumCallers == 2
\* lifetime of a credential issued by the instance metadata service
CredTTL == 1
\* the clock runs from 0 until the client's first credential has expired
MaxClock == CredTTL
\* largest number of parts of a body that is uploaded
MaxBodyParts == 3
\* largest Concurrency the caller asks for
MaxConcurrency == 2
\* largest MaxRetries the caller asks for
MaxRetriesInput == 2

Nil == ""

Min(a, b) == IF a < b THEN a ELSE b

(***************************************************************************)
(* contains / containsMiddle / isRetryableError, as written in the source. *)
(* Go's s[a:b] is SubSeq(s, a+1, b).                                       *)
(***************************************************************************)
\* Variant of containsMiddle that looks at the first position only: the
\* substring property must tell it from the code as written.
containsMiddleAtStartOnly(s, substr) ==
    SubSeq(s, 1, Len(substr)) = substr

containsMiddle(s, substr) ==
    \E i \in 0 .. (Len(s) - Len(substr)) :
        SubSeq(s, i + 1, i + Len(substr)) = substr

contains(s, substr) ==
    /\ Len(s) >= Len(substr)
    /\ \/ s = substr
       \/ /\ Len(s) > Len(substr)
          /\ \/ SubSeq(s, 1, Len(substr)) = substr
             \/ SubSeq(s, Len(s) - Len(substr) + 1, Len(s)) = substr
             \/ containsMiddle(s, substr)

isRetryableError(err) ==
    /\ err # Nil
    /\ \/ contains(err, "status code: 5")
       \/ contains(err, "timeout")
       \/ contains(err, "connection reset")
       \/ contains(err, "EOF")

(***************************************************************************)
(* The environment of one operation call: how the credential refresh at    *)
(* its start goes and what the HTTP round trip returns.                    *)
(*   renew: "static" (client built with New: renewIAMToken is a no-op),    *)
(*          "fresh"  (instance-metadata client, expiry not reached),       *)
(*          "ok"     (expired, the IMDS fetch succeeds),                   *)
(*          "fail"   (expired, the IMDS fetch fails).                      *)
(*   resp:  transport # "" is the error text of client.Do; otherwise the   *)
(*          response's status line, body, ETag header and, for Initiate,   *)
(*          the UploadId element of the XML body.                          *)
(***************************************************************************)
RenewOutcomes(initMode) ==
    IF initMode = "iam" THEN {"fresh", "ok", "fail"} ELSE {"static"}

IMDSError ==
    "error fetching IAM data: error fetching IMDSv2 token: failed to request IMDSv2 token: 403 Forbidden"

\* renewIAMToken seen from the caller: the error it returns and whether the
\* instance metadata service was contacted.
renewIAMToken(renew) ==
    [err  |-> IF renew = "fail" THEN IMDSError ELSE Nil,
     imds |-> renew \in {"ok", "fail"}]

Resp(code, status, body, etag, uploadID) ==
    [transport |-> "", code |-> code, status |-> status, body |-> body,
     etag |-> etag, uploadID |-> uploadID]

TransportFailure(text) ==
    [transport |-> text, code |-> 0, status |-> "", body |-> "",
     etag |-> "", uploadID |-> ""]

\* fmt.Errorf("status code: %s: %s", res.Status, string(body))
StatusError(resp) == "status code: " \o resp.status \o ": " \o resp.body

NoRequests == << >>

\* A request that reached the wire, with what came back: the operation, the
\* upload id and part number of its query, the byte range of the body sent,
\* the part list of a completion body, the response's status code (0: none)
\* and the error the operation made of the exchange.
Request(op, id, part, lo, hi, parts, code, err) ==
    [op |-> op, id |-> id, part |-> part, lo |-> lo, hi |-> hi, parts |-> parts,
     code |-> code, err |-> err]

\* What an operation hands back: its error (Nil on success), the requests it
\* issued and whether it contacted the IMDS, plus the operation's own output.
Outcome(err, reqs, imds) == [err |-> err, reqs |-> reqs, imds |-> imds]

(***************************************************************************)
(* InitiateMultipartUpload(input): validation, credential refresh, signed  *)
(* POST ?uploads, status check, XML body.                                  *)
(***************************************************************************)
InitiateMultipartUpload(input, env) ==
    LET rn  == renewIAMToken(env.renew)
        sent(err) == <<Request("Initiate", "", 0, 0, 0, << >>, env.resp.code, err)>>
        out(err, reqs, imds, id) ==
            [err |-> err, reqs |-> reqs, imds |-> imds, UploadID |-> id]
    IN  IF input.Bucket = "" THEN out("bucket name is required", NoRequests, FALSE, "")
        ELSE IF input.ObjectKey = "" THEN out("object key is required", NoRequests, FALSE, "")
        ELSE IF rn.err # Nil THEN out(rn.err, NoRequests, rn.imds, "")
        ELSE IF env.resp.transport # ""
            THEN out(env.resp.transport, sent(env.resp.transport), rn.imds, "")
        ELSE IF env.resp.code # 200
            THEN out(StatusError(env.resp), sent(StatusError(env.resp)), rn.imds, "")
        ELSE out(Nil, sent(Nil), rn.imds, env.resp.uploadID)

(***************************************************************************)
(* UploadPart(input): input.Body is a reader over a slice of the body,     *)
(* modelled by the byte range [lo, hi) it has not handed out yet (nil: no  *)
(* reader).  io.ReadAll drains it, so the reader that comes back is empty. *)
(***************************************************************************)
NilReader == [nil |-> TRUE, lo |-> 0, hi |-> 0]
NewReader(lo, hi) == [nil |-> FALSE, lo |-> lo, hi |-> hi]
Drained(r) == [nil |-> FALSE, lo |-> r.hi, hi |-> r.hi]

UploadPart(input, env) ==
    LET rn  == renewIAMToken(env.renew)
        \* content, err := io.ReadAll(input.Body); bytes.NewReader(content)
        sent(err) == <<Request("UploadPart", input.UploadID, input.PartNumber,
                               input.Body.lo, input.Body.hi, << >>,
                               env.resp.code, err)>>
        out(err, reqs, imds, etag, body) ==
            [err |-> err, reqs |-> reqs, imds |-> imds, ETag |-> etag,
             PartNumber |-> IF err = Nil THEN input.PartNumber ELSE 0,
             Body |-> body]
    IN  IF input.Bucket = "" THEN out("bucket name is required", NoRequests, FALSE, "", input.Body)
        ELSE IF input.ObjectKey = "" THEN out("object key is required", NoRequests, FALSE, "", input.Body)
        ELSE IF input.UploadID = "" THEN out("upload ID is required", NoRequests, FALSE, "", input.Body)
        ELSE IF input.PartNumber < 1 \/ input.PartNumber > MaxParts
            THEN out("part number must be between 1 and " \o ToString(MaxParts),
                     NoRequests, FALSE, "", input.Body)
        ELSE IF input.Body.nil THEN out("body is required", NoRequests, FALSE, "", input.Body)
        ELSE IF input.Size <= 0 THEN out("size must be greater than 0", NoRequests, FALSE, "", input.Body)
        ELSE IF rn.err # Nil THEN out(rn.err, NoRequests, rn.imds, "", input.Body)
        ELSE IF env.resp.transport # ""
            THEN out(env.resp.transport, sent(env.resp.transport), rn.imds, "",
                     Drained(input.Body))
        ELSE IF env.resp.code # 200
            THEN out(StatusError(env.resp), sent(StatusError(env.resp)), rn.imds, "",
                     Drained(input.Body))
        ELSE IF env.resp.etag = ""
            THEN out("ETag not found in response", sent("ETag not found in response"),
                     rn.imds, "", Drained(input.Body))
        ELSE out(Nil, sent(Nil), rn.imds, env.resp.etag, Drained(input.Body))

(***************************************************************************)
(* CompleteMultipartUpload(input): the request body lists input.Parts in   *)
(* the order given.                                                        *)
(***************************************************************************)
\* Variant of CompleteMultipartUpload that sends an empty part list: the
\* empty-body property must tell it from the code as written.
CompleteMultipartUploadEmptyParts(input, env) ==
    LET rn  == renewIAMToken(env.renew)
        sent(err) == <<Request("Complete", input.UploadID, 0, 0, 0, input.Parts,
                               env.resp.code, err)>>
    IN  IF input.Bucket = "" THEN Outcome("bucket name is required", NoRequests, FALSE)
        ELSE IF input.ObjectKey = "" THEN Outcome("object key is required", NoRequests, FALSE)
        ELSE IF input.UploadID = "" THEN Outcome("upload ID is required", NoRequests, FALSE)
        ELSE IF rn.err # Nil THEN Outcome(rn.err, NoRequests, rn.imds)
        ELSE IF env.resp.transport # ""
            THEN Outcome(env.resp.transport, sent(env.resp.transport), rn.imds)
        ELSE IF env.resp.code # 200
            THEN Outcome(StatusError(env.resp), sent(StatusError(env.resp)), rn.imds)
        ELSE Outcome(Nil, sent(Nil), rn.imds)

CompleteMultipartUpload(input, env) ==
    LET rn  == renewIAMToken(env.renew)
        sent(err) == <<Request("Complete", input.UploadID, 0, 0, 0, input.Parts,
                               env.resp.code, err)>>
    IN  IF input.Bucket = "" THEN Outcome("bucket name is required", NoRequests, FALSE)
        ELSE IF input.ObjectKey = "" THEN Outcome("object key is required", NoRequests, FALSE)
        ELSE IF input.UploadID = "" THEN Outcome("upload ID is required", NoRequests, FALSE)
        ELSE IF Len(input.Parts) = 0 THEN Outcome("parts list cannot be empty", NoRequests, FALSE)
        ELSE IF rn.err # Nil THEN Outcome(rn.err, NoRequests, rn.imds)
        ELSE IF env.resp.transport # ""
            THEN Outcome(env.resp.transport, sent(env.resp.transport), rn.imds)
        ELSE IF env.resp.code # 200
            THEN Outcome(StatusError(env.resp), sent(StatusError(env.resp)), rn.imds)
        ELSE Outcome(Nil, sent(Nil), rn.imds)

(***************************************************************************)
(* AbortMultipartUpload(input): signed DELETE ?uploadId=..., 204 expected. *)
(***************************************************************************)
AbortMultipartUpload(input, env) ==
    LET rn  == renewIAMToken(env.renew)
        sent(err) == <<Request("Abort", input.UploadID, 0, 0, 0, << >>,
                               env.resp.code, err)>>
    IN  IF input.Bucket = "" THEN Outcome("bucket name is required", NoRequests, FALSE)
        ELSE IF input.ObjectKey = "" THEN Outcome("object key is required", NoRequests, FALSE)
        ELSE IF input.UploadID = "" THEN Outcome("upload ID is required", NoRequests, FALSE)
        ELSE IF rn.err # Nil THEN Outcome(rn.err, NoRequests, rn.imds)
        ELSE IF env.resp.transport # ""
            THEN Outcome(env.resp.transport, sent(env.resp.transport), rn.imds)
        ELSE IF env.resp.code # 204
            THEN Outcome(StatusError(env.resp), sent(StatusError(env.resp)), rn.imds)
        ELSE Outcome(Nil, sent(Nil), rn.imds)

(***************************************************************************)
(* uploadPartWithRetry(input, maxRetries), one loop iteration at a time.   *)
(* The loop's state: the attempt counter, lastErr, the reader input.Body   *)
(* (shared by all attempts), and, once the function has returned, what it  *)
(* returned.                                                               *)
(***************************************************************************)
EffectiveRetries(maxRetries) ==
    IF maxRetries <= 0 THEN DefaultMaxRetries ELSE maxRetries

RetryStart(input, maxRetries) ==
    [input |-> input, maxRetries |-> EffectiveRetries(maxRetries),
     attempt |-> 0, lastErr |-> Nil, returned |-> FALSE, err |-> Nil,
     ETag |-> "", PartNumber |-> 0]

\* Variant of RetryIteration that takes every error for a retryable one: the
\* retry properties must tell it from the loop as written.
RetryIterationRetriesAll(rs, up) ==
    LET next == [rs EXCEPT !.input.Body = up.Body]
    IN  IF up.err = Nil
        THEN [next EXCEPT !.returned = TRUE, !.ETag = up.ETag,
                          !.PartNumber = up.PartNumber]
        ELSE IF rs.attempt + 1 <= rs.maxRetries
        THEN [next EXCEPT !.attempt = rs.attempt + 1, !.lastErr = up.err]
        ELSE [next EXCEPT !.attempt = rs.attempt + 1, !.lastErr = up.err,
                          !.returned = TRUE,
                          !.err = "failed after " \o ToString(rs.maxRetries)
                                  \o " retries: " \o up.err]

\* One iteration of the for loop, given the outcome `up` of its UploadPart call.
RetryIteration(rs, up) ==
    LET next == [rs EXCEPT !.input.Body = up.Body]
    IN  IF up.err = Nil
        THEN [next EXCEPT !.returned = TRUE, !.ETag = up.ETag,
                          !.PartNumber = up.PartNumber]
        ELSE IF ~isRetryableError(up.err)
        THEN [next EXCEPT !.returned = TRUE, !.lastErr = up.err, !.err = up.err]
        ELSE IF rs.attempt + 1 <= rs.maxRetries
        THEN [next EXCEPT !.attempt = rs.attempt + 1, !.lastErr = up.err]
        ELSE [next EXCEPT !.attempt = rs.attempt + 1, !.lastErr = up.err,
                          !.returned = TRUE,
                          !.err = "failed after " \o ToString(rs.maxRetries)
                                  \o " retries: " \o up.err]

(***************************************************************************)
(* State.                                                                  *)
(***************************************************************************)
VARIABLES
    initMode,        \* s3.initMode: "iam" for an instance-metadata client
    call,            \* the operation the caller invoked: [op, input, ...]
    pc,              \* where the calling goroutine is
    ret,             \* what the call returned: [done, err]
    requests,        \* the S3 requests issued so far, in order
    imds,            \* whether the instance metadata service was contacted
    loc,             \* FileUploadMultipart's locals
    completedParts,  \* completedParts of the part uploader that is running
    err2,            \* the error FileUploadMultipart is about to return
    rs,              \* the retry loop the calling goroutine is in
    ctxDone,         \* parallel uploader: ctx is cancelled
    partsChan,       \* [buf, closed]
    resultsChan,     \* [buf, closed]
    errChan,         \* [buf, closed]
    producer,        \* [pc, partNum]
    workers,         \* the worker goroutines: a bag of [pc, rs]
    closer,          \* the goroutine that waits for the workers and closes
    partErrs,        \* errors uploadPartWithRetry returned inside the call
    \* The credential of an S3 client shared by concurrent callers:
    now,             \* the clock
    cred,            \* s3.AccessKey, s3.SecretKey, s3.Token, s3.expiry
    mu,              \* s3.mu: the caller that holds it, 0 when free
    imdsGen,         \* credentials the instance metadata service has issued
    callers,         \* each caller's position in its operation
    imdsLog,         \* the requests made to the instance metadata service
    s3Log            \* the S3 requests sent and presigned URLs returned

vars == <<initMode, call, pc, ret, requests, imds, loc, completedParts, err2,
          rs, ctxDone, partsChan, resultsChan, errChan, producer, workers,
          closer, partErrs, now, cred, mu, imdsGen, callers, imdsLog, s3Log>>

credVars == <<now, cred, mu, imdsGen, callers, imdsLog, s3Log>>

parVars == <<ctxDone, partsChan, resultsChan, errChan, producer, workers, closer>>

(***************************************************************************)
(* Inputs and server behaviour.                                            *)
(***************************************************************************)
Reader(size, readErr) == [nil |-> FALSE, size |-> size, readErr |-> readErr]

\* Bodies of 0 .. n parts of MinPartSize, with and without a short last part.
BodySizes(n) ==
    {0} \cup {k * MinPartSize : k \in 1 .. n}
        \cup {k * MinPartSize + 1 : k \in 0 .. (n - 1)}

FUMInput(bucket, key, body, partSize, maxRetries, concurrency) ==
    [Bucket |-> bucket, ObjectKey |-> key, Body |-> body, PartSize |-> partSize,
     MaxRetries |-> maxRetries, Concurrency |-> concurrency]

\* Calls of FileUploadMultipart that differ in the fields it validates.
ValidationInputs ==
    {FUMInput(b, k, body, ps, 1, 1) :
        b \in {"", "b"}, k \in {"", "k"},
        body \in {[nil |-> TRUE, size |-> 0, readErr |-> FALSE], Reader(1, FALSE)},
        ps \in {0 - 1, 0, MinPartSize - 1, MinPartSize}}

\* Sequential uploads: every body, every retry budget; a body that cannot be
\* read; a body of MaxParts + 1 parts.
SequentialInputs ==
    {FUMInput("b", "k", Reader(n, FALSE), MinPartSize, r, c) :
        n \in BodySizes(MaxBodyParts), r \in (0 - 1) .. MaxRetriesInput, c \in 0 .. 1}
    \cup {FUMInput("b", "k", body, 0, 1, c) :
        body \in {Reader(MinPartSize, TRUE), Reader(MaxParts * MinPartSize + 1, FALSE)},
        c \in {1, MaxConcurrency}}

\* Parallel uploads with one retry per part.
ParallelInputs ==
    {FUMInput("b", "k", Reader(n, FALSE), MinPartSize, 1, c) :
        n \in BodySizes(MaxBodyParts), c \in 2 .. MaxConcurrency}

\* Parallel uploads of two parts with the default retry budget.
ParallelDefaultRetryInputs ==
    {FUMInput("b", "k", Reader(MinPartSize + 1, FALSE), MinPartSize, 0, 2)}

\* Direct calls of the operations FileUploadMultipart is built from.
InitiateInputs == [Bucket : {"", "b"}, ObjectKey : {"", "k"}]

UploadPartInputs ==
    [Bucket : {"", "b"}, ObjectKey : {"", "k"}, UploadID : {"", "upload-1"},
     PartNumber : {0, 1, MaxParts, MaxParts + 1},
     Body : {NilReader, NewReader(0, 1)}, Size : {0 - 1, 0, 1}]

CompleteInputs ==
    [Bucket : {"", "b"}, ObjectKey : {"", "k"}, UploadID : {"", "upload-1"},
     Parts : {<< >>, <<[PartNumber |-> 1, ETag |-> "etag-0-1"]>>}]

AbortInputs ==
    [Bucket : {"", "b"}, ObjectKey : {"", "k"}, UploadID : {"", "upload-1"}]

RetryInputs ==
    [Bucket : {"b"}, ObjectKey : {"k"}, UploadID : {"upload-1"},
     PartNumber : {1}, Body : {NewReader(0, MinPartSize)}, Size : {MinPartSize}]

Call(op, input, maxRetries) == [op |-> op, input |-> input, maxRetries |-> maxRetries]

\* Calls made on a client built with static keys.
\* Uploads with a part size of twice the minimum, sequential and parallel.
LargePartInputs ==
    {FUMInput("b", "k", Reader(n, FALSE), 2 * MinPartSize, 1, c) :
        n \in {2 * MinPartSize, 2 * MinPartSize + 1, 3 * MinPartSize}, c \in 1 .. 2}

StaticCalls ==
    {Call("FileUploadMultipart", i, 0) :
        i \in ValidationInputs \cup SequentialInputs \cup ParallelInputs
              \cup ParallelDefaultRetryInputs \cup LargePartInputs}
    \cup {Call("InitiateMultipartUpload", i, 0) : i \in InitiateInputs}
    \cup {Call("UploadPart", i, 0) : i \in UploadPartInputs}
    \cup {Call("CompleteMultipartUpload", i, 0) : i \in CompleteInputs}
    \cup {Call("AbortMultipartUpload", i, 0) : i \in AbortInputs}
    \cup {Call("uploadPartWithRetry", i, r) :
            i \in RetryInputs, r \in (0 - 1) .. MaxRetriesInput}

\* Calls made on an instance-metadata client: the parallel uploads are those
\* of at most two parts.
IAMCalls ==
    {c \in StaticCalls :
        c.op = "FileUploadMultipart" /\ c.input.Concurrency > 1
            => c.input.Body.size <= 2 * MinPartSize /\ c.input.MaxRetries = 1}

OK200 == Resp(200, "200 OK", "", "", "")

\* The ETag the server answers for the bytes it was sent.
ETagOf(reader) == "etag-" \o ToString(reader.lo) \o "-" \o ToString(reader.hi)

InitiateResponses ==
    {Resp(200, "200 OK", "", "", "upload-1"),
     Resp(200, "200 OK", "", "", ""),
     Resp(403, "403 Forbidden", "AccessDenied", "", "")}

\* Inside FileUploadMultipart a part is answered 200, 500 or 403.
UploadPartResponses(input) ==
    {Resp(200, "200 OK", "", ETagOf(input.Body), ""),
     Resp(500, "500 Internal Server Error",
          "InternalError part " \o ToString(input.PartNumber), "", ""),
     Resp(403, "403 Forbidden",
          "AccessDenied part " \o ToString(input.PartNumber), "", "")}

\* A direct call of UploadPart or uploadPartWithRetry meets more answers.
AllUploadPartResponses(input) ==
    UploadPartResponses(input) \cup
    {Resp(200, "200 OK", "", "", ""),
     Resp(503, "503 Service Unavailable", "SlowDown", "", ""),
     Resp(404, "404 Not Found", "NoSuchUpload", "", ""),
     Resp(400, "400 Bad Request",
          "RequestTimeout: Your socket connection to the server was not read from or written to within the timeout period.",
          "", ""),
     TransportFailure("Put \"https://s3.us-east-1.amazonaws.com/b/k\": EOF"),
     TransportFailure("Put \"https://s3.us-east-1.amazonaws.com/b/k\": read tcp: connection reset by peer"),
     TransportFailure("Put \"https://s3.us-east-1.amazonaws.com/b/k\": dial tcp: connect: connection refused")}

CompleteResponses ==
    {OK200, Resp(400, "400 Bad Request", "InvalidPart", "", "")}

AbortResponses ==
    {Resp(204, "204 No Content", "", "", ""),
     Resp(404, "404 Not Found", "NoSuchUpload", "", "")}

Envs(responses) == [renew : RenewOutcomes(initMode), resp : responses]

(***************************************************************************)
(* Initial state: a client, and one call about to run.                     *)
(***************************************************************************)
NoRetry == RetryStart([Bucket |-> "", ObjectKey |-> "", UploadID |-> "",
                       PartNumber |-> 0, Body |-> NilReader, Size |-> 0], 0)

NoLocals == [partSize |-> 0, maxRetries |-> 0, concurrency |-> 0,
             UploadID |-> "", initiated |-> FALSE,
             totalSize |-> 0, totalParts |-> 0, uploadedBytes |-> 0,
             abortCalled |-> FALSE, abortErr |-> Nil, onProgress |-> << >>]

\* The ProgressInfo passed to input.OnProgress (a callback is supplied;
\* BytesPerSecond, which depends on the wall clock, is left out).  The
\* onProgress field of the locals is the sequence of calls made so far.
ProgressInfo(l, uploadedBytes, currentPart) ==
    [TotalBytes |-> l.totalSize, UploadedBytes |-> uploadedBytes,
     CurrentPart |-> currentPart, TotalParts |-> l.totalParts]

Chan == [buf |-> << >>, closed |-> FALSE]

ParIdle ==
    /\ ctxDone = FALSE
    /\ partsChan = Chan
    /\ resultsChan = Chan
    /\ errChan = Chan
    /\ producer = [pc |-> "idle", partNum |-> 0]
    /\ workers = EmptyBag
    /\ closer = "idle"

\* A credential: the fields hold the number of the credential they belong
\* to (0: the static keys given to New, with an empty Token; n > 0: the n-th
\* credential issued by the instance metadata service).
Cred(gen, expiry) ==
    [AccessKey |-> gen, SecretKey |-> gen, Token |-> gen, expiry |-> expiry]

NoCred == Cred(0, 0)

Callers == 1 .. NumCallers

IdleCaller ==
    [pc |-> "idle", op |-> "", k |-> 0, token |-> 0, fetched |-> NoCred,
     used |-> NoCred, err |-> Nil, url |-> "", refreshFailed |-> FALSE,
     before |-> NoCred, after |-> NoCred]

\* The shared-credential part of the state while a single call is studied.
CredIdle ==
    /\ now = 0
    /\ cred = NoCred
    /\ mu = 0
    /\ imdsGen = 0
    /\ callers = [c \in Callers |-> IdleCaller]
    /\ imdsLog = << >>
    /\ s3Log = << >>

Init ==
    /\ \/ initMode = "" /\ call \in StaticCalls
       \/ initMode = "iam" /\ call \in IAMCalls
    /\ CredIdle
    /\ pc = "start"
    /\ ret = [done |-> FALSE, err |-> Nil]
    /\ requests = << >>
    /\ imds = FALSE
    /\ loc = NoLocals
    /\ completedParts = << >>
    /\ err2 = Nil
    /\ rs = NoRetry
    /\ ParIdle
    /\ partErrs = {}

(***************************************************************************)
(* The calling goroutine.                                                  *)
(***************************************************************************)
Return(err) ==
    /\ pc' = "done"
    /\ ret' = [done |-> TRUE, err |-> err]

\* The requests an operation call issued reach the wire in order.
Issue(out) ==
    /\ requests' = requests \o out.reqs
    /\ imds' = (imds \/ out.imds)

PartSizeOf(input) == IF input.PartSize = 0 THEN DefaultPartSize ELSE input.PartSize

\* Variant of FUMValidationError without the part-size check: the validation
\* property must tell it from the checks as written.
FUMValidationErrorNoPartSize(input) ==
    IF input.Bucket = "" THEN "bucket name is required"
    ELSE IF input.ObjectKey = "" THEN "object key is required"
    ELSE IF input.Body.nil THEN "body is required"
    ELSE Nil

FUMValidationError(input) ==
    IF input.Bucket = "" THEN "bucket name is required"
    ELSE IF input.ObjectKey = "" THEN "object key is required"
    ELSE IF input.Body.nil THEN "body is required"
    ELSE IF PartSizeOf(input) < MinPartSize
        THEN "part size must be at least " \o ToString(MinPartSize) \o " bytes"
    ELSE Nil

\* FileUploadMultipart: validation and defaults.
FUMStart ==
    /\ pc = "start"
    /\ call.op = "FileUploadMultipart"
    /\ LET input == call.input
           verr  == FUMValidationError(input)
       IN  IF verr # Nil
           THEN Return(verr) /\ UNCHANGED loc
           ELSE /\ pc' = "initiate"
                /\ loc' = [loc EXCEPT
                      !.partSize = PartSizeOf(input),
                      !.maxRetries = IF input.MaxRetries = 0 THEN DefaultMaxRetries
                                     ELSE input.MaxRetries,
                      !.concurrency = IF input.Concurrency <= 0 THEN 1
                                      ELSE input.Concurrency]
                /\ UNCHANGED ret
    /\ UNCHANGED <<initMode, call, requests, imds, completedParts, err2, rs,
                   partErrs>>
    /\ UNCHANGED parVars
    /\ UNCHANGED credVars

\* FileUploadMultipart: s3.InitiateMultipartUpload(...).
FUMInitiate ==
    /\ pc = "initiate"
    /\ \E env \in Envs(InitiateResponses) :
        LET out == InitiateMultipartUpload(
                       [Bucket |-> call.input.Bucket,
                        ObjectKey |-> call.input.ObjectKey], env)
        IN  /\ Issue(out)
            /\ IF out.err # Nil
               THEN Return(out.err) /\ UNCHANGED loc
               ELSE /\ pc' = "read"
                    /\ loc' = [loc EXCEPT !.UploadID = out.UploadID,
                                          !.initiated = TRUE]
                    /\ UNCHANGED ret
    /\ UNCHANGED <<initMode, call, completedParts, err2, rs, partErrs>>
    /\ UNCHANGED parVars
    /\ UNCHANGED credVars

\* int(math.Ceil(float64(a) / float64(b)))
CeilDiv(a, b) == (a + b - 1) \div b

\* The UploadPartInput both part uploaders build for part partNum.
\* Variant of PartInput that does not clamp the end of the last part to the
\* size of the body: the slicing property must tell it from the code as
\* written.
PartInputUnclamped(l, partNum) ==
    LET start == (partNum - 1) * l.partSize
        end   == start + l.partSize
    IN  [Bucket |-> call.input.Bucket, ObjectKey |-> call.input.ObjectKey,
         UploadID |-> l.UploadID, PartNumber |-> partNum,
         Body |-> NewReader(start, end), Size |-> end - start]

PartInput(l, partNum) ==
    LET start == (partNum - 1) * l.partSize
        end   == Min(start + l.partSize, l.totalSize)
    IN  [Bucket |-> call.input.Bucket, ObjectKey |-> call.input.ObjectKey,
         UploadID |-> l.UploadID, PartNumber |-> partNum,
         Body |-> NewReader(start, end), Size |-> end - start]

\* uploadPartsSequential: the head of its for loop.
SeqLoop(l, partNum) ==
    IF partNum <= l.totalParts
    THEN /\ pc' = "seq"
         /\ rs' = RetryStart(PartInput(l, partNum), l.maxRetries)
    ELSE /\ pc' = "complete"
         /\ rs' = NoRetry

Worker(wpc, wrs) == [pc |-> wpc, rs |-> wrs]

\* uploadPartsParallel2 up to its collecting loop: channels made, workers,
\* producer and closer started.
ParStart(l) ==
    /\ pc' = "collect"
    /\ ctxDone' = FALSE
    /\ partsChan' = Chan
    /\ resultsChan' = Chan
    /\ errChan' = Chan
    /\ workers' = (Worker("select", NoRetry) :> l.concurrency)
    /\ producer' = [pc |-> "loop", partNum |-> 1]
    /\ closer' = "wait"

\* FileUploadMultipart: io.ReadAll(input.Body), the part count, and the
\* dispatch to a part uploader.
FUMReadBody ==
    /\ pc = "read"
    /\ LET body == call.input.Body
           total == CeilDiv(body.size, loc.partSize)
           l == [loc EXCEPT !.totalSize = body.size, !.totalParts = total]
       IN  IF body.readErr
           THEN /\ err2' = "unexpected EOF"
                /\ pc' = "abort"
                /\ UNCHANGED <<loc, rs>>
                /\ UNCHANGED parVars
           ELSE IF total > MaxParts
           THEN /\ err2' = "file too large: requires " \o ToString(total)
                           \o " parts, maximum is " \o ToString(MaxParts)
                /\ pc' = "abort"
                /\ loc' = l
                /\ UNCHANGED rs
                /\ UNCHANGED parVars
           ELSE /\ loc' = l
                /\ UNCHANGED err2
                /\ IF l.concurrency <= 1
                   THEN SeqLoop(l, 1) /\ UNCHANGED parVars
                   ELSE ParStart(l) /\ UNCHANGED rs
    /\ UNCHANGED <<initMode, call, ret, requests, imds, completedParts, partErrs>>
    /\ UNCHANGED credVars

CompletedPart(r) == [PartNumber |-> r.PartNumber, ETag |-> r.ETag]

\* uploadPartsSequential: one iteration of uploadPartWithRetry's loop for the
\* current part and, when it returns, the rest of the sequential loop body.
SeqAttempt ==
    /\ pc = "seq"
    /\ \E env \in Envs(UploadPartResponses(rs.input)) :
        LET up == UploadPart(rs.input, env)
            n  == RetryIteration(rs, up)
        IN  /\ Issue(up)
            /\ IF ~n.returned
               THEN /\ rs' = n
                    /\ UNCHANGED <<pc, completedParts, err2, loc, partErrs>>
               ELSE IF n.err # Nil
               THEN /\ rs' = n
                    /\ err2' = n.err
                    /\ partErrs' = partErrs \cup {n.err}
                    /\ pc' = "abort"
                    /\ UNCHANGED <<completedParts, loc>>
               ELSE /\ completedParts' = Append(completedParts, CompletedPart(n))
                    /\ loc' = [loc EXCEPT
                           !.uploadedBytes = @ + rs.input.Size,
                           !.onProgress = Append(@, ProgressInfo(loc,
                               loc.uploadedBytes + rs.input.Size,
                               rs.input.PartNumber))]
                    /\ SeqLoop(loc, rs.input.PartNumber + 1)
                    /\ UNCHANGED <<err2, partErrs>>
    /\ UNCHANGED <<initMode, call, ret>>
    /\ UNCHANGED parVars
    /\ UNCHANGED credVars

\* Variant of FUMComplete that returns Complete's error without aborting: the
\* abort property must tell it from the code as written.
FUMCompleteNoAbort ==
    /\ pc = "complete"
    /\ \E env \in Envs(CompleteResponses) :
        LET out == CompleteMultipartUpload(
                       [Bucket |-> call.input.Bucket,
                        ObjectKey |-> call.input.ObjectKey,
                        UploadID |-> loc.UploadID,
                        Parts |-> completedParts], env)
        IN  /\ Issue(out)
            /\ Return(out.err)
    /\ UNCHANGED <<initMode, call, loc, completedParts, err2, rs, partErrs>>
    /\ UNCHANGED parVars
    /\ UNCHANGED credVars

\* FileUploadMultipart: s3.CompleteMultipartUpload(...) with completedParts.
FUMComplete ==
    /\ pc = "complete"
    /\ \E env \in Envs(CompleteResponses) :
        LET out == CompleteMultipartUpload(
                       [Bucket |-> call.input.Bucket,
                        ObjectKey |-> call.input.ObjectKey,
                        UploadID |-> loc.UploadID,
                        Parts |-> completedParts], env)
        IN  /\ Issue(out)
            /\ IF out.err # Nil
               THEN pc' = "abort" /\ err2' = out.err /\ UNCHANGED ret
               ELSE Return(Nil) /\ UNCHANGED err2
    /\ UNCHANGED <<initMode, call, loc, completedParts, rs, partErrs>>
    /\ UNCHANGED parVars
    /\ UNCHANGED credVars

\* FileUploadMultipart: s3.AbortMultipartUpload(...), its result dropped (kept
\* in loc.abortErr for the properties), and the return of the error that led
\* here.
FUMAbort ==
    /\ pc = "abort"
    /\ \E env \in Envs(AbortResponses) :
        LET out == AbortMultipartUpload(
                       [Bucket |-> call.input.Bucket,
                        ObjectKey |-> call.input.ObjectKey,
                        UploadID |-> loc.UploadID], env)
        IN  /\ Issue(out)
            /\ loc' = [loc EXCEPT !.abortCalled = TRUE, !.abortErr = out.err]
    /\ Return(err2)
    /\ UNCHANGED <<initMode, call, completedParts, err2, rs, partErrs>>
    /\ UNCHANGED parVars
    /\ UNCHANGED credVars

(***************************************************************************)
(* uploadPartsParallel2: producer, workers, closer, and the collecting loop *)
(* run by the calling goroutine.  The goroutines outlive the call.          *)
(***************************************************************************)
Send(ch, v) == [ch EXCEPT !.buf = Append(@, v)]
Recv(ch) == [ch EXCEPT !.buf = Tail(@)]
Close(ch) == [ch EXCEPT !.closed = TRUE]

\* One worker goroutine moves from state w to state v.
Step(w, v) == (workers (-) SetToBag({w})) (+) SetToBag({v})

\* producer: select picks <-ctx.Done().
ProducerCancelled ==
    /\ producer.pc = "loop"
    /\ producer.partNum <= loc.totalParts
    /\ ctxDone
    /\ producer' = [producer EXCEPT !.pc = "exit"]
    /\ UNCHANGED <<initMode, call, pc, ret, requests, imds, loc, completedParts,
                   err2, rs, ctxDone, partsChan, resultsChan, errChan, workers,
                   closer, partErrs>>
    /\ UNCHANGED credVars

\* producer: select picks partsChan <- partData{partNum, bodyData[start:end]}.
ProducerSend ==
    /\ producer.pc = "loop"
    /\ producer.partNum <= loc.totalParts
    /\ Len(partsChan.buf) < loc.concurrency
    /\ partsChan' = Send(partsChan, producer.partNum)
    /\ producer' = [producer EXCEPT !.partNum = @ + 1]
    /\ UNCHANGED <<initMode, call, pc, ret, requests, imds, loc, completedParts,
                   err2, rs, ctxDone, resultsChan, errChan, workers, closer,
                   partErrs>>
    /\ UNCHANGED credVars

\* producer: close(partsChan) after the loop.
ProducerClose ==
    /\ producer.pc = "loop"
    /\ producer.partNum > loc.totalParts
    /\ partsChan' = Close(partsChan)
    /\ producer' = [producer EXCEPT !.pc = "exit"]
    /\ UNCHANGED <<initMode, call, pc, ret, requests, imds, loc, completedParts,
                   err2, rs, ctxDone, resultsChan, errChan, workers, closer,
                   partErrs>>
    /\ UNCHANGED credVars

\* worker: select picks <-ctx.Done().
WorkerCancelled ==
    /\ ctxDone
    /\ \E w \in BagToSet(workers) :
        /\ w.pc = "select"
        /\ workers' = Step(w, Worker("exit", NoRetry))
    /\ UNCHANGED <<initMode, call, pc, ret, requests, imds, loc, completedParts,
                   err2, rs, ctxDone, partsChan, resultsChan, errChan, producer,
                   closer, partErrs>>
    /\ UNCHANGED credVars

\* Variant of WorkerReceive that reads the head of partsChan without taking
\* it off the queue: the one-worker-per-part property must tell it from the
\* code as written.
WorkerReceiveKeepsPart ==
    /\ \E w \in BagToSet(workers) :
        /\ w.pc = "select"
        /\ partsChan.buf # << >>
        /\ workers' = Step(w, Worker("retry",
               RetryStart(PartInput(loc, Head(partsChan.buf)), loc.maxRetries)))
    /\ UNCHANGED <<initMode, call, pc, ret, requests, imds, loc, completedParts,
                   err2, rs, ctxDone, partsChan, resultsChan, errChan, producer,
                   closer, partErrs>>
    /\ UNCHANGED credVars

\* worker: select picks part, ok := <-partsChan.
WorkerReceive ==
    /\ \E w \in BagToSet(workers) :
        /\ w.pc = "select"
        /\ \/ /\ partsChan.buf # << >>
              /\ partsChan' = Recv(partsChan)
              /\ workers' = Step(w, Worker("retry",
                     RetryStart(PartInput(loc, Head(partsChan.buf)), loc.maxRetries)))
           \/ /\ partsChan.buf = << >>
              /\ partsChan.closed
              /\ workers' = Step(w, Worker("exit", NoRetry))
              /\ UNCHANGED partsChan
    /\ UNCHANGED <<initMode, call, pc, ret, requests, imds, loc, completedParts,
                   err2, rs, ctxDone, resultsChan, errChan, producer, closer,
                   partErrs>>
    /\ UNCHANGED credVars

\* worker: one iteration of uploadPartWithRetry's loop and, when it returns,
\* the send on errChan (with cancel) or on resultsChan.
WorkerAttempt ==
    /\ \E w \in BagToSet(workers) :
        /\ w.pc = "retry"
        /\ \E env \in Envs(UploadPartResponses(w.rs.input)) :
            LET up == UploadPart(w.rs.input, env)
                n  == RetryIteration(w.rs, up)
            IN  /\ Issue(up)
                /\ IF ~n.returned
                   THEN /\ workers' = Step(w, Worker("retry", n))
                        /\ UNCHANGED <<errChan, resultsChan, ctxDone, partErrs>>
                   ELSE IF n.err # Nil
                   THEN /\ workers' = Step(w, Worker("exit", NoRetry))
                        /\ partErrs' = partErrs \cup {n.err}
                        /\ IF Len(errChan.buf) < loc.concurrency
                           THEN errChan' = Send(errChan, n.err) /\ ctxDone' = TRUE
                           ELSE UNCHANGED <<errChan, ctxDone>>
                        /\ UNCHANGED resultsChan
                   ELSE /\ workers' = Step(w, Worker("select", NoRetry))
                        /\ resultsChan' = Send(resultsChan, CompletedPart(n))
                        /\ UNCHANGED <<errChan, ctxDone, partErrs>>
    /\ UNCHANGED <<initMode, call, pc, ret, loc, completedParts, err2, rs,
                   partsChan, producer, closer>>
    /\ UNCHANGED credVars

\* closer: wg.Wait() returns, close(resultsChan).
CloserCloseResults ==
    /\ closer = "wait"
    /\ \A w \in BagToSet(workers) : w.pc = "exit"
    /\ resultsChan' = Close(resultsChan)
    /\ closer' = "closeErr"
    /\ UNCHANGED <<initMode, call, pc, ret, requests, imds, loc, completedParts,
                   err2, rs, ctxDone, partsChan, errChan, producer, workers,
                   partErrs>>
    /\ UNCHANGED credVars

\* closer: close(errChan).
CloserCloseErr ==
    /\ closer = "closeErr"
    /\ errChan' = Close(errChan)
    /\ closer' = "exit"
    /\ UNCHANGED <<initMode, call, pc, ret, requests, imds, loc, completedParts,
                   err2, rs, ctxDone, partsChan, resultsChan, producer, workers,
                   partErrs>>
    /\ UNCHANGED credVars

\* collector: select picks err := <-errChan with err != nil; cancel(); the
\* call returns (nil, err) to FileUploadMultipart.  (A receive of nil from the
\* closed, empty errChan loops back to the select and changes nothing.)
CollectError ==
    /\ pc = "collect"
    /\ errChan.buf # << >>
    /\ errChan' = Recv(errChan)
    /\ ctxDone' = TRUE
    /\ err2' = Head(errChan.buf)
    /\ pc' = "abort"
    /\ UNCHANGED <<initMode, call, ret, requests, imds, loc, completedParts, rs,
                   partsChan, resultsChan, producer, workers, closer, partErrs>>
    /\ UNCHANGED credVars

\* The exchange sort of the collecting loop: position i takes the smallest
\* part number left at positions i .. Len.
RECURSIVE SortFrom(_, _, _)
SortFrom(parts, i, j) ==
    IF i > Len(parts) THEN parts
    ELSE IF j > Len(parts) THEN SortFrom(parts, i + 1, i + 2)
    ELSE IF parts[i].PartNumber > parts[j].PartNumber
        THEN SortFrom([parts EXCEPT ![i] = parts[j], ![j] = parts[i]], i, j + 1)
    ELSE SortFrom(parts, i, j + 1)

\* Variant of SortByPartNumber that leaves the parts in the order the
\* workers delivered them: the equivalence of the two paths must tell it
\* from the code as written.
SortByPartNumberAsCollected(parts) == parts

SortByPartNumber(parts) == SortFrom(parts, 1, 2)

\* collector: select picks part, ok := <-resultsChan.
CollectResult ==
    /\ pc = "collect"
    /\ \/ /\ resultsChan.buf # << >>
          /\ resultsChan' = Recv(resultsChan)
          /\ completedParts' = Append(completedParts, Head(resultsChan.buf))
          /\ LET partsCompleted == Len(completedParts) + 1
                 uploadedBytes == Min(partsCompleted * loc.partSize, loc.totalSize)
             IN  loc' = [loc EXCEPT
                     !.uploadedBytes = uploadedBytes,
                     !.onProgress = Append(@,
                         ProgressInfo(loc, uploadedBytes, partsCompleted))]
          /\ UNCHANGED <<pc, ctxDone>>
       \/ /\ resultsChan.buf = << >>
          /\ resultsChan.closed
          /\ completedParts' = SortByPartNumber(completedParts)
          /\ ctxDone' = TRUE
          /\ pc' = "complete"
          /\ UNCHANGED <<resultsChan, loc>>
    /\ UNCHANGED <<initMode, call, ret, requests, imds, err2, rs, partsChan,
                   errChan, producer, workers, closer, partErrs>>
    /\ UNCHANGED credVars

(***************************************************************************)
(* Direct calls of the operations.                                         *)
(***************************************************************************)
Direct(out) ==
    /\ Issue(out)
    /\ Return(out.err)
    /\ UNCHANGED <<initMode, call, loc, completedParts, err2, rs, partErrs>>
    /\ UNCHANGED parVars
    /\ UNCHANGED credVars

CallInitiate ==
    /\ pc = "start"
    /\ call.op = "InitiateMultipartUpload"
    /\ \E env \in Envs(InitiateResponses) :
        Direct(InitiateMultipartUpload(call.input, env))

CallUploadPart ==
    /\ pc = "start"
    /\ call.op = "UploadPart"
    /\ \E env \in Envs(AllUploadPartResponses(call.input)) :
        Direct(UploadPart(call.input, env))

CallComplete ==
    /\ pc = "start"
    /\ call.op = "CompleteMultipartUpload"
    /\ \E env \in Envs(CompleteResponses) :
        Direct(CompleteMultipartUpload(call.input, env))

CallAbort ==
    /\ pc = "start"
    /\ call.op = "AbortMultipartUpload"
    /\ \E env \in Envs(AbortResponses) :
        Direct(AbortMultipartUpload(call.input, env))

\* uploadPartWithRetry called on its own: entry, then one loop iteration at a
\* time.
RetryCall ==
    /\ pc = "start"
    /\ call.op = "uploadPartWithRetry"
    /\ rs' = RetryStart(call.input, call.maxRetries)
    /\ pc' = "retry"
    /\ UNCHANGED <<initMode, call, ret, requests, imds, loc, completedParts,
                   err2, partErrs>>
    /\ UNCHANGED parVars
    /\ UNCHANGED credVars

RetryAttempt ==
    /\ pc = "retry"
    /\ \E env \in Envs(AllUploadPartResponses(rs.input)) :
        LET up == UploadPart(rs.input, env)
            n  == RetryIteration(rs, up)
        IN  /\ Issue(up)
            /\ rs' = n
            /\ IF n.returned
               THEN /\ Return(n.err)
                    /\ partErrs' = (IF n.err # Nil THEN partErrs \cup {n.err}
                                    ELSE partErrs)
               ELSE UNCHANGED <<pc, ret, partErrs>>
    /\ UNCHANGED <<initMode, call, loc, completedParts, err2>>
    /\ UNCHANGED parVars
    /\ UNCHANGED credVars

Next ==
    \/ FUMStart
    \/ FUMInitiate
    \/ FUMReadBody
    \/ SeqAttempt
    \/ FUMComplete
    \/ FUMAbort
    \/ ProducerCancelled
    \/ ProducerSend
    \/ ProducerClose
    \/ WorkerCancelled
    \/ WorkerReceive
    \/ WorkerAttempt
    \/ CloserCloseResults
    \/ CloserCloseErr
    \/ CollectError
    \/ CollectResult
    \/ CallInitiate
    \/ CallUploadPart
    \/ CallComplete
    \/ CallAbort
    \/ RetryCall
    \/ RetryAttempt

Spec == Init /\ [][Next]_vars

(***************************************************************************)
(* The shared credential: NumCallers goroutines use one client, each       *)
(* running one request operation (renewIAMToken, signRequest, client.Do)   *)
(* or one GeneratePresignedURL, one statement at a time.  The fields of    *)
(* the credential are read by the signing code without s3.mu;              *)
(* renewIAMToken reads s3.expiry without it and writes the four fields     *)
(* under it.                                                               *)
(***************************************************************************)
mainVars == <<initMode, call, pc, ret, requests, imds, loc, completedParts,
              err2, rs, ctxDone, partsChan, resultsChan, errChan, producer,
              workers, closer, partErrs>>

\* No single call is under study.
MainIdle ==
    /\ call = Call("", [Bucket |-> "", ObjectKey |-> ""], 0)
    /\ pc = "idle"
    /\ ret = [done |-> FALSE, err |-> Nil]
    /\ requests = << >>
    /\ imds = FALSE
    /\ loc = NoLocals
    /\ completedParts = << >>
    /\ err2 = Nil
    /\ rs = NoRetry
    /\ ParIdle
    /\ partErrs = {}

\* A client from New (static keys) or from NewUsingIAM (credential 1, which
\* has expired already or expires at CredTTL).
InitCred ==
    /\ initMode \in {"", "iam"}
    /\ MainIdle
    /\ now = 0
    /\ \E e \in {0, CredTTL} :
          cred = IF initMode = "iam" THEN Cred(1, e) ELSE NoCred
    /\ mu = 0
    /\ imdsGen = IF initMode = "iam" THEN 1 ELSE 0
    /\ callers = [c \in Callers |-> IdleCaller]
    /\ imdsLog = << >>
    /\ s3Log = << >>

SetCaller(c, r) == callers' = [callers EXCEPT ![c] = r]

\* What a read of a string field yields while another goroutine is at the
\* store to it: the value stored before, or a torn string header.
Torn == 0 - 1

\* The order in which the signing code reads the credential's fields.
ReadOrder(op) ==
    IF op = "request" THEN <<"Token", "SecretKey", "AccessKey">>
    ELSE <<"AccessKey", "Token", "SecretKey">>

\* The clock advances.
Tick ==
    /\ now < MaxClock
    /\ now' = now + 1
    /\ UNCHANGED <<cred, mu, imdsGen, callers, imdsLog, s3Log>>
    /\ UNCHANGED mainVars

\* Caller c enters its request operation or GeneratePresignedURL.
Begin(c) ==
    /\ callers[c].pc = "idle"
    /\ callers[c].op = ""
    /\ \E op \in {"request", "presign"} :
        SetCaller(c, [IdleCaller EXCEPT !.pc = "checkMode", !.op = op])
    /\ UNCHANGED <<now, cred, mu, imdsGen, imdsLog, s3Log>>
    /\ UNCHANGED mainVars

\* renewIAMToken: if s3.initMode != "iam" { return nil }
CheckMode(c) ==
    /\ callers[c].pc = "checkMode"
    /\ SetCaller(c, [callers[c] EXCEPT
           !.pc = IF initMode # "iam" THEN "sign" ELSE "checkExpiry", !.k = 1])
    /\ UNCHANGED <<now, cred, mu, imdsGen, imdsLog, s3Log>>
    /\ UNCHANGED mainVars

\* Variant of Expired that refreshes one tick early: the no-op property of
\* renewIAMToken must tell it from the comparison as written.
ExpiredEarly(expiry) == now + 1 >= expiry

\* !(time.Since(expiry) < 0)
Expired(expiry) == now >= expiry

\* renewIAMToken: if time.Since(s3.expiry) < 0 { return nil }.  The read is
\* not under s3.mu: while another caller is at the store to s3.expiry the
\* words read are those stored before or those being stored, and the
\* comparison goes by either.
CheckExpiry(c) ==
    /\ callers[c].pc = "checkExpiry"
    /\ LET racing == {d \in Callers \ {c} : callers[d].pc = "writeExpiry"}
           seen == {cred.expiry} \cup {callers[d].fetched.expiry : d \in racing}
       IN  \E e \in seen :
            SetCaller(c, [callers[c] EXCEPT
                !.pc = IF Expired(e) THEN "lock" ELSE "sign"])
    /\ UNCHANGED <<now, cred, mu, imdsGen, imdsLog, s3Log>>
    /\ UNCHANGED mainVars

\* renewIAMToken: s3.mu.Lock()
Lock(c) ==
    /\ callers[c].pc = "lock"
    /\ mu = 0
    /\ mu' = c
    /\ SetCaller(c, [callers[c] EXCEPT !.pc = "imds1", !.before = cred])
    /\ UNCHANGED <<now, cred, imdsGen, imdsLog, s3Log>>
    /\ UNCHANGED mainVars

\* A request to the instance metadata service: who made it, which step of
\* fetchIAMData it is (1: token PUT, 2: role-name GET, 3: role-credentials
\* GET), whether it was answered 200, and the session token its
\* X-aws-ec2-metadata-token header carries (0: no such header).
IMDSRequest(c, step, ok, token) ==
    [caller |-> c, step |-> step, ok |-> ok, token |-> token]

\* fetchIMDSToken: PUT /api/token answers 200 with a new session token
\* (numbered by the position of the PUT in the log).
FetchIMDSToken(c) ==
    /\ callers[c].pc = "imds1"
    /\ imdsLog' = Append(imdsLog, IMDSRequest(c, 1, TRUE, 0))
    /\ SetCaller(c, [callers[c] EXCEPT !.pc = "imds2",
                        !.token = Len(imdsLog) + 1])
    /\ UNCHANGED <<now, cred, mu, imdsGen, s3Log>>
    /\ UNCHANGED mainVars

\* fetchIAMData: GET /meta-data/iam/security-credentials/ answers the role.
FetchRoleName(c) ==
    /\ callers[c].pc = "imds2"
    /\ imdsLog' = Append(imdsLog, IMDSRequest(c, 2, TRUE, callers[c].token))
    /\ SetCaller(c, [callers[c] EXCEPT !.pc = "imds3"])
    /\ UNCHANGED <<now, cred, mu, imdsGen, s3Log>>
    /\ UNCHANGED mainVars

\* fetchIAMData: GET .../security-credentials/<role> answers a credential,
\* the next one the service issues, valid for CredTTL.
FetchRoleCredentials(c) ==
    /\ callers[c].pc = "imds3"
    /\ imdsLog' = Append(imdsLog, IMDSRequest(c, 3, TRUE, callers[c].token))
    /\ imdsGen' = imdsGen + 1
    /\ SetCaller(c, [callers[c] EXCEPT !.pc = "writeExpiry",
                        !.fetched = Cred(imdsGen + 1, now + CredTTL)])
    /\ UNCHANGED <<now, cred, mu, s3Log>>
    /\ UNCHANGED mainVars

IMDSStepOf(c) ==
    CASE callers[c].pc = "imds1" -> 1
      [] callers[c].pc = "imds2" -> 2
      [] callers[c].pc = "imds3" -> 3

\* Variant of IMDSFail in which the operation drops renewIAMToken's error
\* and goes on to sign: the refresh-failure property must tell it from the
\* code as written.
IMDSFailIgnored(c) ==
    /\ callers[c].pc \in {"imds1", "imds2", "imds3"}
    /\ imdsLog' = Append(imdsLog,
           IMDSRequest(c, IMDSStepOf(c), FALSE, callers[c].token))
    /\ mu' = 0
    /\ SetCaller(c, [callers[c] EXCEPT !.pc = "sign", !.k = 1,
                        !.err = IMDSError, !.refreshFailed = TRUE,
                        !.after = cred])
    /\ UNCHANGED <<now, cred, imdsGen, s3Log>>
    /\ UNCHANGED mainVars

\* Variant of IMDSFail in which a failed token PUT is followed by the GETs
\* without a token: the fetch-sequence property must tell it from the code
\* as written.
IMDSFailFallsBack(c) ==
    /\ callers[c].pc \in {"imds1", "imds2", "imds3"}
    /\ imdsLog' = Append(imdsLog,
           IMDSRequest(c, IMDSStepOf(c), FALSE, callers[c].token))
    /\ IF callers[c].pc = "imds1"
       THEN /\ SetCaller(c, [callers[c] EXCEPT !.pc = "imds2"])
            /\ UNCHANGED mu
       ELSE /\ mu' = 0
            /\ SetCaller(c, [callers[c] EXCEPT !.pc = "idle", !.err = IMDSError,
                                !.url = "", !.refreshFailed = TRUE, !.after = cred])
    /\ UNCHANGED <<now, cred, imdsGen, s3Log>>
    /\ UNCHANGED mainVars

\* One of the three steps fails: fetchIAMData returns the error,
\* renewIAMToken wraps and returns it (unlocking s3.mu), and the operation
\* returns it (GeneratePresignedURL: returns "").
IMDSFail(c) ==
    /\ callers[c].pc \in {"imds1", "imds2", "imds3"}
    /\ imdsLog' = Append(imdsLog,
           IMDSRequest(c, IMDSStepOf(c), FALSE, callers[c].token))
    /\ mu' = 0
    /\ SetCaller(c, [callers[c] EXCEPT !.pc = "idle", !.err = IMDSError,
                        !.url = "", !.refreshFailed = TRUE, !.after = cred])
    /\ UNCHANGED <<now, cred, imdsGen, s3Log>>
    /\ UNCHANGED mainVars

\* renewIAMToken: s3.expiry = iamResp.Expiration
WriteExpiry(c) ==
    /\ callers[c].pc = "writeExpiry"
    /\ cred' = [cred EXCEPT !.expiry = callers[c].fetched.expiry]
    /\ SetCaller(c, [callers[c] EXCEPT !.pc = "writeToken"])
    /\ UNCHANGED <<now, mu, imdsGen, imdsLog, s3Log>>
    /\ UNCHANGED mainVars

\* renewIAMToken: s3.Token = iamResp.Token
WriteToken(c) ==
    /\ callers[c].pc = "writeToken"
    /\ cred' = [cred EXCEPT !.Token = callers[c].fetched.Token]
    /\ SetCaller(c, [callers[c] EXCEPT !.pc = "writeAccessKey"])
    /\ UNCHANGED <<now, mu, imdsGen, imdsLog, s3Log>>
    /\ UNCHANGED mainVars

\* renewIAMToken: s3.AccessKey = iamResp.AccessKeyID
WriteAccessKey(c) ==
    /\ callers[c].pc = "writeAccessKey"
    /\ cred' = [cred EXCEPT !.AccessKey = callers[c].fetched.AccessKey]
    /\ SetCaller(c, [callers[c] EXCEPT !.pc = "writeSecretKey"])
    /\ UNCHANGED <<now, mu, imdsGen, imdsLog, s3Log>>
    /\ UNCHANGED mainVars

\* renewIAMToken: s3.SecretKey = iamResp.SecretAccessKey; return nil (the
\* deferred s3.mu.Unlock() runs).
WriteSecretKey(c) ==
    /\ callers[c].pc = "writeSecretKey"
    /\ cred' = [cred EXCEPT !.SecretKey = callers[c].fetched.SecretKey]
    /\ mu' = 0
    /\ SetCaller(c, [callers[c] EXCEPT !.pc = "sign", !.k = 1,
                        !.after = cred'])
    /\ UNCHANGED <<now, imdsGen, imdsLog, s3Log>>
    /\ UNCHANGED mainVars

\* signRequest / GeneratePresignedURL: the next read of a credential field.
SignRead(c) ==
    /\ callers[c].pc = "sign"
    /\ LET f == ReadOrder(callers[c].op)[callers[c].k]
           racing == \E d \in Callers \ {c} : callers[d].pc = "write" \o f
       IN  \E v \in (IF racing THEN {cred[f], Torn} ELSE {cred[f]}) :
            SetCaller(c, [callers[c] EXCEPT
                !.used = [@ EXCEPT ![f] = v],
                !.k = @ + 1,
                !.pc = IF callers[c].k = 3 THEN "send" ELSE "sign"])
    /\ UNCHANGED <<now, cred, mu, imdsGen, imdsLog, s3Log>>
    /\ UNCHANGED mainVars

\* The signed request is sent (client.Do), or the presigned URL returned.
SendSigned(c) ==
    /\ callers[c].pc = "send"
    /\ s3Log' = Append(s3Log,
           [caller |-> c, op |-> callers[c].op,
            AccessKey |-> callers[c].used.AccessKey,
            SecretKey |-> callers[c].used.SecretKey,
            Token |-> callers[c].used.Token])
    /\ SetCaller(c, [callers[c] EXCEPT !.pc = "idle",
           !.url = IF callers[c].op = "presign" THEN "signed" ELSE ""])
    /\ UNCHANGED <<now, cred, mu, imdsGen, imdsLog>>
    /\ UNCHANGED mainVars

NextCred ==
    \/ Tick
    \/ \E c \in Callers : Begin(c)
    \/ \E c \in Callers : CheckMode(c)
    \/ \E c \in Callers : CheckExpiry(c)
    \/ \E c \in Callers : Lock(c)
    \/ \E c \in Callers : FetchIMDSToken(c)
    \/ \E c \in Callers : FetchRoleName(c)
    \/ \E c \in Callers : FetchRoleCredentials(c)
    \/ \E c \in Callers : IMDSFail(c)
    \/ \E c \in Callers : WriteExpiry(c)
    \/ \E c \in Callers : WriteToken(c)
    \/ \E c \in Callers : WriteAccessKey(c)
    \/ \E c \in Callers : WriteSecretKey(c)
    \/ \E c \in Callers : SignRead(c)
    \/ \E c \in Callers : SendSigned(c)

SpecCred == InitCred /\ [][NextCred]_vars

(***************************************************************************)
(* Vocabulary of the properties.                                           *)
(***************************************************************************)
IsFUM == call.op = "FileUploadMultipart"

\* Positions in the request log of the requests of one operation.
Sent(op) == {i \in DOMAIN requests : requests[i].op = op}

\* Positions of the UploadPart requests for part p.
PartAttempts(p) ==
    {i \in DOMAIN requests : requests[i].op = "UploadPart" /\ requests[i].part = p}

PartsAttempted == {requests[i].part : i \in Sent("UploadPart")}

HasPrefix(s, pre) == Len(s) >= Len(pre) /\ SubSeq(s, 1, Len(pre)) = pre

Last(S) == CHOOSE i \in S : \A j \in S : j <= i

\* The upload id was allocated and the call has returned.
ReturnedAfterInitiate == ret.done /\ IsFUM /\ loc.initiated /\ loc.UploadID # ""

CompleteSucceeded ==
    \E i \in Sent("Complete") :
        requests[i].id = loc.UploadID /\ requests[i].err = Nil

AbortIssued == \E i \in Sent("Abort") : requests[i].id = loc.UploadID

(***************************************************************************)
(* C1.  As stated: when FileUploadMultipart returns after a successful     *)
(* Initiate, either Complete has succeeded for the upload id or an Abort   *)
(* request for it has been issued.                                         *)
(***************************************************************************)
C1_CompleteOrAbortIssued ==
    ReturnedAfterInitiate => (CompleteSucceeded \/ AbortIssued)

\* C1, amended: when FileUploadMultipart returns after a successful Initiate,
\* either Complete has succeeded for the upload id, or AbortMultipartUpload
\* was called for it, and its DELETE was issued unless the credential refresh
\* at the start of the abort failed.
C1_CompleteOrAbortCalled ==
    ReturnedAfterInitiate =>
        \/ CompleteSucceeded
        \/ /\ ret.err # Nil
           /\ loc.abortCalled
           /\ \/ AbortIssued
              \/ initMode = "iam" /\ loc.abortErr = IMDSError

\* C1: a parallel upload whose part failed returned after issuing the abort.
C1_Witness ==
    /\ ReturnedAfterInitiate
    /\ loc.concurrency > 1
    /\ partErrs # {}
    /\ ret.err \in partErrs
    /\ AbortIssued
    /\ ~CompleteSucceeded

(***************************************************************************)
(* C2.  In parallel mode, once uploadPartWithRetry has failed terminally   *)
(* for a part, FileUploadMultipart returns a part's error and has issued   *)
(* no Complete.                                                            *)
(***************************************************************************)
C2_ParallelFailureSurfaces ==
    (ret.done /\ IsFUM /\ loc.concurrency > 1 /\ partErrs # {}) =>
        (ret.err \in partErrs /\ Sent("Complete") = {})

(***************************************************************************)
(* C3.  When FileUploadMultipart returns success, the part list of its     *)
(* Complete request is 1 .. totalParts in ascending order, each part with  *)
(* the ETag its successful UploadPart response carried.                    *)
(***************************************************************************)
ETagReturned(p) ==
    LET ok == {i \in PartAttempts(p) : requests[i].err = Nil}
    IN  IF ok = {} THEN "" ELSE ETagOf(requests[Last(ok)])

C3_CompletionList ==
    (ret.done /\ IsFUM /\ ret.err = Nil) =>
        \A i \in Sent("Complete") :
            requests[i].parts =
                [p \in 1 .. loc.totalParts |->
                    [PartNumber |-> p, ETag |-> ETagReturned(p)]]

(***************************************************************************)
(* C4.  The abort DELETE of FileUploadMultipart is the last request for    *)
(* the upload: no UploadPart and no Complete request follows it.           *)
(***************************************************************************)
C4_NothingAfterAbort ==
    IsFUM =>
        \A i \in Sent("Abort") : \A j \in DOMAIN requests :
            j > i => requests[j].op \notin {"UploadPart", "Complete"}

(***************************************************************************)
(* C5.  A body that needs more than MaxParts parts: FileUploadMultipart    *)
(* returns an error and issues no request.                                 *)
(***************************************************************************)
TooManyParts ==
    /\ IsFUM
    /\ FUMValidationError(call.input) = Nil
    /\ ~call.input.Body.readErr
    /\ CeilDiv(call.input.Body.size, PartSizeOf(call.input)) > MaxParts

C5_TooManyPartsNoRequest ==
    TooManyParts => (requests = << >> /\ (ret.done => ret.err # Nil))

(***************************************************************************)
(* C6.  A call whose input fails validation returns an error and causes no *)
(* HTTP traffic: no request to the instance metadata service, none to S3.  *)
(***************************************************************************)
\* The invalid inputs the multipart operations reject, per operation.
InvalidInput ==
    LET in == call.input
        noTarget == in.Bucket = "" \/ in.ObjectKey = ""
    IN  CASE call.op = "FileUploadMultipart" ->
                \/ noTarget
                \/ in.Body.nil
                \/ in.PartSize # 0 /\ in.PartSize < MinPartSize
          [] call.op = "InitiateMultipartUpload" -> noTarget
          [] call.op \in {"UploadPart", "uploadPartWithRetry"} ->
                \/ noTarget
                \/ in.UploadID = ""
                \/ in.PartNumber < 1 \/ in.PartNumber > MaxParts
                \/ in.Body.nil
                \/ in.Size <= 0
          [] call.op = "CompleteMultipartUpload" ->
                noTarget \/ in.UploadID = "" \/ in.Parts = << >>
          [] call.op = "AbortMultipartUpload" -> noTarget \/ in.UploadID = ""

C6_ValidationBeforeIO ==
    InvalidInput =>
        /\ requests = << >>
        /\ ~imds
        /\ pc \in {"start", "done"}
        /\ ret.done => ret.err # Nil

\* C6: an invalid call on an instance-metadata client has returned.
C6_Witness ==
    /\ InvalidInput
    /\ ret.done
    /\ initMode = "iam"
    /\ call.op \in {"FileUploadMultipart", "UploadPart", "CompleteMultipartUpload"}

(***************************************************************************)
(* C7.  Per part, uploadPartWithRetry makes at most maxRetries + 1 calls   *)
(* of UploadPart (maxRetries: the caller's value, DefaultMaxRetries when   *)
(* it is not positive); every attempt but the last failed with a retryable *)
(* error; "failed after N retries" is returned only when all maxRetries+1  *)
(* attempts failed with retryable errors, and wraps the last of them; no   *)
(* part is attempted by more than one run of the loop.                     *)
(***************************************************************************)
RetryBudget ==
    EffectiveRetries(IF IsFUM THEN call.input.MaxRetries ELSE call.maxRetries)

\* The retry loops that are running: the caller's and the workers'.
RunningLoops ==
    (IF pc \in {"seq", "retry"} THEN {rs} ELSE {})
    \cup {w.rs : w \in {v \in BagToSet(workers) : v.pc = "retry"}}

ExhaustedText == "failed after " \o ToString(RetryBudget) \o " retries: "

C7_RetryBudget ==
    call.op \in {"FileUploadMultipart", "uploadPartWithRetry"} =>
        /\ \A l \in RunningLoops :
              /\ l.maxRetries = RetryBudget
              /\ l.attempt <= l.maxRetries
              /\ Cardinality(PartAttempts(l.input.PartNumber)) <= l.attempt
        /\ \A p \in PartsAttempted :
              /\ Cardinality(PartAttempts(p)) <= RetryBudget + 1
              /\ \A i, j \in PartAttempts(p) :
                    i < j => isRetryableError(requests[i].err)
        /\ \A e \in partErrs :
              HasPrefix(e, "failed after ") =>
                  \E p \in PartsAttempted :
                      /\ Cardinality(PartAttempts(p)) = RetryBudget + 1
                      /\ \A i \in PartAttempts(p) : isRetryableError(requests[i].err)
                      /\ e = ExhaustedText \o requests[Last(PartAttempts(p))].err

\* C7: with MaxRetries unset, a part of a multipart upload used up the default
\* budget and the call returned the exhaustion error.
C7_Witness ==
    /\ IsFUM
    /\ call.input.MaxRetries = 0
    /\ ret.done
    /\ HasPrefix(ret.err, "failed after 3 retries: ")
    /\ \E p \in PartsAttempted : Cardinality(PartAttempts(p)) = DefaultMaxRetries + 1

(***************************************************************************)
(* C8.  An UploadPart response that is neither 2xx nor 5xx is fatal for    *)
(* its part: no further UploadPart request for the part follows it.        *)
(***************************************************************************)
C8_Non5xxIsFatal ==
    \A p \in PartsAttempted : \A i, j \in PartAttempts(p) :
        (i < j /\ requests[i].code # 0 /\ requests[i].code \notin 200 .. 299)
            => requests[i].code \in 500 .. 599

(***************************************************************************)
(* C9.  Every request signed and every URL presigned on the shared client  *)
(* uses an access key, a secret key and a session token that belong to one *)
(* credential (stated for the signatures made of whole field values: a     *)
(* torn read is a mixture of its own).                                     *)
(***************************************************************************)
C9_SignedWithOneCredential ==
    \A i \in DOMAIN s3Log :
        Torn \notin {s3Log[i].AccessKey, s3Log[i].SecretKey, s3Log[i].Token} =>
            /\ s3Log[i].AccessKey = s3Log[i].SecretKey
            /\ s3Log[i].SecretKey = s3Log[i].Token

(***************************************************************************)
(* C10.  A caller whose credential refresh failed at an IMDS step has      *)
(* returned: a request operation with the error, GeneratePresignedURL with *)
(* the empty string; the operation sent nothing to S3 and presigned        *)
(* nothing; the stored credential and expiry are as they were when the     *)
(* refresh began.                                                          *)
(***************************************************************************)
C10_FailedRefreshStops ==
    \A c \in Callers :
        callers[c].refreshFailed =>
            /\ callers[c].pc = "idle"
            /\ callers[c].op = "request" => callers[c].err # Nil
            /\ callers[c].op = "presign" => callers[c].url = ""
            /\ \A i \in DOMAIN s3Log :
                  s3Log[i].caller # c
            /\ callers[c].after = callers[c].before

\* C10: a presign failed at the third IMDS step after the other caller had
\* refreshed the credential and used it.
C10_Witness ==
    \E c \in Callers :
        /\ callers[c].refreshFailed
        /\ callers[c].op = "presign"
        /\ \E i \in DOMAIN imdsLog :
              /\ imdsLog[i].caller = c
              /\ imdsLog[i].step = 3
              /\ ~imdsLog[i].ok
        /\ \E i \in DOMAIN s3Log : s3Log[i].caller # c /\ s3Log[i].AccessKey > 1

(***************************************************************************)
(* C11.  A call of renewIAMToken on a client built with static keys, or on *)
(* an instance-metadata client while the clock is before the stored        *)
(* expiry, returns nil at once: the caller goes on to sign, no request is  *)
(* made to the instance metadata service and no credential field changes.  *)
(***************************************************************************)
\* Caller c is at the check of renewIAMToken that lets it return at once.
AtNoOpCheck(c) ==
    \/ callers[c].pc = "checkMode" /\ initMode # "iam"
    \/ callers[c].pc = "checkExpiry" /\ now < cred.expiry

C11_RenewIsNoOp ==
    [][\A c \in Callers :
          (AtNoOpCheck(c) /\ callers'[c] # callers[c]) =>
              /\ callers'[c].pc = "sign"
              /\ callers'[c].err = Nil
              /\ callers'[c].fetched = NoCred
              /\ imdsLog' = imdsLog
              /\ cred' = cred
              /\ mu' = mu]_vars

\* C11: a caller of an instance-metadata client signed with the credential
\* the client was built with, after the clock had moved, without any fetch.
C11_Witness ==
    /\ initMode = "iam"
    /\ now > 0
    /\ imdsLog = << >>
    /\ \E i \in DOMAIN s3Log : s3Log[i].AccessKey = 1 /\ s3Log[i].Token = 1

(***************************************************************************)
(* C12.  The requests to the instance metadata service come in fetches of  *)
(* token PUT, role-name GET, role-credentials GET: a PUT opens a fetch     *)
(* (the log is empty or the fetch before it is over); each GET follows, by *)
(* the same caller, the step before it answered 200, and carries the token *)
(* the PUT of its fetch returned; no GET goes without a token.             *)
(***************************************************************************)
FetchOver(r) == ~r.ok \/ r.step = 3

C12_ThreeStepFetch ==
    \A i \in DOMAIN imdsLog :
        LET r == imdsLog[i]
        IN  IF r.step = 1
            THEN /\ r.token = 0
                 /\ i > 1 => FetchOver(imdsLog[i - 1])
            ELSE /\ i > 1
                 /\ imdsLog[i - 1].caller = r.caller
                 /\ imdsLog[i - 1].step = r.step - 1
                 /\ imdsLog[i - 1].ok
                 /\ r.token # 0
                 /\ r.token = i - (r.step - 1)
                 /\ imdsLog[r.token].step = 1

\* C12: a complete fetch was followed by a fetch whose token PUT failed, and
\* that was the last request made.
C12_Witness ==
    /\ Len(imdsLog) = 4
    /\ imdsLog[3].step = 3 /\ imdsLog[3].ok
    /\ imdsLog[4].step = 1 /\ ~imdsLog[4].ok
    /\ \A c \in Callers : callers[c].pc = "idle" /\ callers[c].op # ""

(***************************************************************************)
(* The request-building functions.  A call of one of them is an input      *)
(* drawn by InitFn and a step that stores what the function returns in     *)
(* ret; the multipart and credential variables stay idle.                  *)
(***************************************************************************)
fnFrame == <<initMode, call, requests, imds, loc, completedParts, err2, rs,
             ctxDone, partsChan, resultsChan, errChan, producer, workers,
             closer, partErrs>>

\* sha256 + hex of a body: distinct bodies have distinct hashes.
Sha256Hex(data) == "sha256(" \o data \o ")"

\* signRequest's literal e3b0c442...b855 is the hash of the empty string.
emptyhash == Sha256Hex("")

\* An *http.Request as far as the payload hash goes: the body (nil or its
\* bytes) and the x-amz-content-sha256 header ("" when not set).
NilBody == [nil |-> TRUE, data |-> ""]
Body(data) == [nil |-> FALSE, data |-> data]
HTTPRequest(method, body, contentSha256) ==
    [Method |-> method, Body |-> body, ContentSha256 |-> contentSha256]

\* CreateBucket: a CreateBucketConfiguration body outside us-east-1, no
\* x-amz-content-sha256 header.
CreateBucketRequest(input) ==
    LET region == IF input.Region = "" THEN input.s3Region ELSE input.Region
    IN  HTTPRequest("PUT",
            IF region # "us-east-1" /\ region # ""
            THEN Body("<CreateBucketConfiguration><LocationConstraint>" \o region
                      \o "</LocationConstraint></CreateBucketConfiguration>")
            ELSE NilBody,
            "")

\* FilePut: the body is the content, the header its hash.
FilePutRequest(input) ==
    HTTPRequest("PUT", Body(input.content), Sha256Hex(input.content))

\* FileDelete: no body, no header.
FileDeleteRequest(input) == HTTPRequest("DELETE", NilBody, "")

\* DeleteObjects: the body is the Delete document, the header its hash.
DeleteObjectsRequest(input) ==
    HTTPRequest("POST", Body(input.xmlBody), Sha256Hex(input.xmlBody))

\* writeBody: the payload hash written as the last line of the canonical
\* request is computed from the body itself.
writeBody(r) == Sha256Hex(IF r.Body.nil THEN "" ELSE r.Body.data)

\* signRequest, as far as the payload hash goes: the header is set to
\* emptyhash when it is not set, then the canonical request is hashed.
signRequest(req) ==
    LET r == [req EXCEPT !.ContentSha256 =
                 IF req.ContentSha256 = "" THEN emptyhash ELSE @]
    IN  [req |-> r, payloadHash |-> writeBody(r)]

Regions == {"", "us-east-1", "eu-west-1"}
Contents == {"", "a", "ab"}

SignCalls ==
    {Call("CreateBucket", [Region |-> r, s3Region |-> d], 0) :
        r \in Regions, d \in Regions \ {""}}
    \cup {Call("FilePut", [content |-> c], 0) : c \in Contents}
    \cup {Call("FileDelete", [ObjectKey |-> "k"], 0)}
    \cup {Call("DeleteObjects", [xmlBody |-> "<Delete>" \o c \o "</Delete>"], 0) :
            c \in Contents}

SigningOps == {"CreateBucket", "FilePut", "FileDelete", "DeleteObjects"}

RequestOf(c) ==
    CASE c.op = "CreateBucket" -> CreateBucketRequest(c.input)
      [] c.op = "FilePut" -> FilePutRequest(c.input)
      [] c.op = "FileDelete" -> FileDeleteRequest(c.input)
      [] c.op = "DeleteObjects" -> DeleteObjectsRequest(c.input)

\* One of the operations builds its request and signs it.
CallSignRequest ==
    /\ pc = "start"
    /\ call.op \in SigningOps
    /\ ret' = [done |-> TRUE, err |-> Nil, built |-> RequestOf(call),
               signed |-> signRequest(RequestOf(call))]
    /\ pc' = "done"
    /\ UNCHANGED fnFrame
    /\ UNCHANGED credVars

(***************************************************************************)
(* encodePath.  A string is the sequence of the runes that ranging over it *)
(* yields, each rune its code point; an output is the sequence of its      *)
(* (ASCII) characters.                                                     *)
(***************************************************************************)
MaxPathLen == 3

\* 'A' 'z' '0' '-' '/' '%' ' ' U+00E9 U+20AC U+1F600
PathRunes == {65, 122, 48, 45, 47, 37, 32, 233, 8364, 128512}

RECURSIVE SeqsUpTo(_, _)
SeqsUpTo(S, n) ==
    IF n = 0 THEN {<< >>}
    ELSE LET shorter == SeqsUpTo(S, n - 1)
         IN  shorter \cup {Append(t, x) : t \in shorter, x \in S}

\* reservedObjectNames: ^[a-zA-Z0-9-_.~/]+$
reservedObjectNames(pathName) ==
    /\ pathName # << >>
    /\ \A i \in DOMAIN pathName :
          pathName[i] \in (97..122) \cup (65..90) \cup (48..57)
                            \cup {45, 95, 46, 126, 47}

\* utf8.RuneLen and utf8.EncodeRune (surrogates are not runes of a string).
RuneLen(r) ==
    IF r < 128 THEN 1 ELSE IF r < 2048 THEN 2 ELSE IF r < 65536 THEN 3 ELSE 4

EncodeRune(r) ==
    CASE RuneLen(r) = 1 -> <<r>>
      [] RuneLen(r) = 2 -> <<192 + (r \div 64), 128 + (r % 64)>>
      [] RuneLen(r) = 3 -> <<224 + (r \div 4096), 128 + ((r \div 64) % 64),
                             128 + (r % 64)>>
      [] RuneLen(r) = 4 -> <<240 + (r \div 262144), 128 + ((r \div 4096) % 64),
                             128 + ((r \div 64) % 64), 128 + (r % 64)>>

\* hex.EncodeToString of one byte: two digits of "0123456789abcdef".
hextable(n) == IF n < 10 THEN 48 + n ELSE 87 + n
hexEncodeToString(b) == <<hextable(b \div 16), hextable(b % 16)>>

\* Variant of ToUpper that leaves the hex digits as EncodeToString wrote
\* them: the escaping property must tell it from the code as written.
ToUpperKeepsCase(c) == c

\* strings.ToUpper on one ASCII character.
ToUpper(c) == IF c \in 97..122 THEN c - 32 ELSE c

RECURSIVE escapeBytes(_)
escapeBytes(u) ==
    IF u = << >> THEN << >>
    ELSE LET hex == hexEncodeToString(Head(u))
         IN  <<37, ToUpper(hex[1]), ToUpper(hex[2])>> \o escapeBytes(Tail(u))

\* Variant of the loop body that writes a '%' through as it is: the
\* idempotence property must tell it from the code as written.
encodePathRuneKeepsPercent(r) ==
    IF \/ r \in (65..90) \cup (97..122) \cup (48..57)
       \/ r \in {45, 95, 46, 126, 47, 37}
    THEN <<r>>
    ELSE escapeBytes(EncodeRune(r))

\* encodePath, the body of the loop over the runes.
encodePathRune(r) ==
    IF \/ r \in (65..90) \cup (97..122) \cup (48..57)
       \/ r \in {45, 95, 46, 126, 47}
    THEN <<r>>
    ELSE escapeBytes(EncodeRune(r))

RECURSIVE encodeRunes(_)
encodeRunes(pathName) ==
    IF pathName = << >> THEN << >>
    ELSE encodePathRune(Head(pathName)) \o encodeRunes(Tail(pathName))

encodePath(pathName) ==
    IF reservedObjectNames(pathName) THEN pathName ELSE encodeRunes(pathName)

EncodePathCalls ==
    {Call("encodePath", p, 0) : p \in SeqsUpTo(PathRunes, MaxPathLen)}

CallEncodePath ==
    /\ pc = "start"
    /\ call.op = "encodePath"
    /\ ret' = [done |-> TRUE, err |-> Nil, out |-> encodePath(call.input)]
    /\ pc' = "done"
    /\ UNCHANGED fnFrame
    /\ UNCHANGED credVars

(***************************************************************************)
(* buildUploadSign.  A single-key condition is the pair <<key, value>>.    *)
(* uploadConfig.MetaData is a Go map: the function sees its entries in the *)
(* order the runtime's map iteration yields, any order of its keys.  The   *)
(* order in which the caller filled the map is kept with the input (field  *)
(* inserted) for the properties only; no code can read it.                 *)
(***************************************************************************)
MetaKeys == {"x-amz-meta-a", "x-amz-meta-b", "x-amz-meta-c"}

\* The sequences of distinct elements of S.
Orders(S) ==
    {o \in SeqsUpTo(S, Cardinality(S)) :
        Len(o) = Cardinality(S) /\ \A i, j \in DOMAIN o : i # j => o[i] # o[j]}

UploadConfigs ==
    {[BucketName |-> "b", ObjectKey |-> "k", ContentType |-> "text/plain",
      ContentDisposition |-> cd, ACL |-> acl, FileSize |-> n,
      MetaData |-> [k \in {ins[i] : i \in DOMAIN ins} |-> "v-" \o k],
      inserted |-> ins] :
        cd \in {"", "attachment"}, acl \in {"", "public-read"}, n \in {0, 7},
        ins \in UNION {Orders(K) : K \in SUBSET MetaKeys}}

\* Variant of buildUploadSign that appends acl before Content-Disposition:
\* the ordering property must tell it from the code as written.
buildUploadSignAclFirst(uploadConfig, iteration) ==
    <<  <<"bucket", uploadConfig.BucketName>>,
        <<"key", uploadConfig.ObjectKey>>,
        <<"Content-Type", uploadConfig.ContentType>>,
        <<"content-length-range", uploadConfig.FileSize, uploadConfig.FileSize>>,
        <<"x-amz-credential", "credential">>,
        <<"x-amz-algorithm", "AWS4-HMAC-SHA256">>,
        <<"x-amz-date", "amzdate">>  >>
    \o (IF uploadConfig.ACL # ""
        THEN << <<"acl", uploadConfig.ACL>> >> ELSE << >>)
    \o (IF uploadConfig.ContentDisposition # ""
        THEN << <<"Content-Disposition", uploadConfig.ContentDisposition>> >>
        ELSE << >>)
    \o [i \in DOMAIN iteration |->
            <<iteration[i], uploadConfig.MetaData[iteration[i]]>>]

\* buildUploadSign: the conditions of the policy document; iteration is the
\* order in which range yields the keys of uploadConfig.MetaData.
buildUploadSign(uploadConfig, iteration) ==
    <<  <<"bucket", uploadConfig.BucketName>>,
        <<"key", uploadConfig.ObjectKey>>,
        <<"Content-Type", uploadConfig.ContentType>>,
        <<"content-length-range", uploadConfig.FileSize, uploadConfig.FileSize>>,
        <<"x-amz-credential", "credential">>,
        <<"x-amz-algorithm", "AWS4-HMAC-SHA256">>,
        <<"x-amz-date", "amzdate">>  >>
    \o (IF uploadConfig.ContentDisposition # ""
        THEN << <<"Content-Disposition", uploadConfig.ContentDisposition>> >>
        ELSE << >>)
    \o (IF uploadConfig.ACL # ""
        THEN << <<"acl", uploadConfig.ACL>> >> ELSE << >>)
    \o [i \in DOMAIN iteration |->
            <<iteration[i], uploadConfig.MetaData[iteration[i]]>>]

\* CreateUploadPolicies calls buildUploadSign.
CallBuildUploadSign ==
    /\ pc = "start"
    /\ call.op = "CreateUploadPolicies"
    /\ \E iteration \in Orders(DOMAIN call.input.MetaData) :
          ret' = [done |-> TRUE, err |-> Nil,
                  conditions |-> buildUploadSign(call.input, iteration)]
    /\ pc' = "done"
    /\ UNCHANGED fnFrame
    /\ UNCHANGED credVars

(***************************************************************************)
(* GeneratePresignedURL, the signed headers.  Header names are sequences   *)
(* of code points, as the strings of encodePath.                           *)
(***************************************************************************)
\* "host"
hostHeader == <<104, 111, 115, 116>>

\* "Host", "X-A", "x-b", "Z", "a"
ExtraHeaderNames == {<<72, 111, 115, 116>>, <<88, 45, 65>>, <<120, 45, 98>>,
                     <<90>>, <<97>>}

\* a < b for strings, byte by byte (sort.Strings).
StringLess(a, b) ==
    \E i \in 1..(Len(a) + 1) :
        /\ \A j \in 1..(i - 1) : j <= Len(b) /\ a[j] = b[j]
        /\ IF i <= Len(a) THEN i <= Len(b) /\ a[i] < b[i] ELSE i <= Len(b)

RECURSIVE sortStrings(_)
sortStrings(S) ==
    IF S = {} THEN << >>
    ELSE LET least == CHOOSE x \in S : \A y \in S \ {x} : StringLess(x, y)
         IN  <<least>> \o sortStrings(S \ {least})

\* strings.Join(a, ";")
RECURSIVE JoinSemicolon(_)
JoinSemicolon(a) ==
    IF a = << >> THEN << >>
    ELSE IF Len(a) = 1 THEN a[1]
    ELSE a[1] \o <<59>> \o JoinSemicolon(Tail(a))

\* strings.ToLower on an ASCII string.
ToLower(str) == [i \in DOMAIN str |-> IF str[i] \in 65..90 THEN str[i] + 32 ELSE str[i]]

\* url.QueryEscape on an ASCII string: letters, digits and - _ . ~ are
\* kept, a space becomes '+', any other byte %HH.
RECURSIVE QueryEscape(_)
QueryEscape(str) ==
    IF str = << >> THEN << >>
    ELSE LET c == Head(str)
         IN  (IF c \in (65..90) \cup (97..122) \cup (48..57) \cup {45, 95, 46, 126}
              THEN <<c>>
              ELSE IF c = 32 THEN <<43>>
              ELSE escapeBytes(<<c>>))
             \o QueryEscape(Tail(str))

\* GeneratePresignedURL: the X-Amz-SignedHeaders query value, the names of
\* the canonical headers block in the order written, and the signed-headers
\* line of the canonical request.
GeneratePresignedURL(in) ==
    LET signedHeaders == in.ExtraHeaders \cup {hostHeader}
        sortedSH == sortStrings(signedHeaders)
    IN  [signedHeadersForURL |->
             JoinSemicolon([i \in DOMAIN sortedSH |-> QueryEscape(sortedSH[i])]),
         canonicalHeaders |-> [i \in DOMAIN sortedSH |-> ToLower(sortedSH[i])],
         signedHeadersStr |-> JoinSemicolon(sortedSH)]

CallGeneratePresignedURL ==
    /\ pc = "start"
    /\ call.op = "GeneratePresignedURL"
    /\ ret' = [done |-> TRUE, err |-> Nil, out |-> GeneratePresignedURL(call.input)]
    /\ pc' = "done"
    /\ UNCHANGED fnFrame
    /\ UNCHANGED credVars

(***************************************************************************)
(* uploadPartWithRetry, the wait before a retry.  A time.Duration is an    *)
(* int64 of nanoseconds and TLC's integers are 32 bit wide: a duration is  *)
(* the four 16-bit limbs of its two's complement, lowest first.            *)
(***************************************************************************)
MaxAttempt == 66

\* 100 * time.Millisecond = 0x05F5E100 ns; 5 * time.Second = 0x12A05F200 ns
DefaultRetryBaseWait == <<57600, 1525, 0, 0>>
DefaultRetryMaxWait == <<61952, 10757, 1, 0>>

\* d * 2^n in int64 arithmetic (the product wraps around modulo 2^64).
ShiftLeft(d, n) ==
    LET b  == 2 ^ (n % 16)
        q  == n \div 16
        c1 == d[1] * b
        c2 == d[2] * b + (c1 \div 65536)
        c3 == d[3] * b + (c2 \div 65536)
        c4 == d[4] * b + (c3 \div 65536)
        bits == <<c1 % 65536, c2 % 65536, c3 % 65536, c4 % 65536>>
    IN  [i \in 1..4 |-> IF i > q THEN bits[i - q] ELSE 0]

\* a > b on int64.
DurationGreater(a, b) ==
    IF (a[4] >= 32768) # (b[4] >= 32768) THEN b[4] >= 32768
    ELSE \E i \in 1..4 : a[i] > b[i] /\ \A j \in (i + 1)..4 : a[j] = b[j]

\* waitTime of the retry numbered attempt.  time.Duration(math.Pow(2, n)) is
\* 2^n up to n = 62; beyond, the float64 is out of int64's range and the
\* conversion yields what the platform yields: the lowest int64 on amd64
\* (times the base wait: 0), the highest on arm64 (times the base wait:
\* -100 ms).
waitTime(attempt, arch) ==
    LET product ==
            IF attempt - 1 <= 62 THEN ShiftLeft(DefaultRetryBaseWait, attempt - 1)
            ELSE IF arch = "amd64" THEN <<0, 0, 0, 0>>
            ELSE <<7936, 64010, 65535, 65535>>
    IN  IF DurationGreater(product, DefaultRetryMaxWait)
        THEN DefaultRetryMaxWait ELSE product

\* uploadPartWithRetry reaches the retry numbered call.input and computes
\* its wait.
CallWaitTime ==
    /\ pc = "start"
    /\ call.op = "uploadPartWithRetry"
    /\ \E arch \in {"amd64", "arm64"} :
          ret' = [done |-> TRUE, err |-> Nil, waitTime |-> waitTime(call.input, arch)]
    /\ pc' = "done"
    /\ UNCHANGED fnFrame
    /\ UNCHANGED credVars

(***************************************************************************)
(* contains and isRetryableError, called on their own.  The strings given  *)
(* to contains are sequences over 'a' and 'b'; the texts given to          *)
(* isRetryableError are error texts.                                       *)
(***************************************************************************)
MaxStrLen == 3

CallContains ==
    /\ pc = "start"
    /\ call.op = "contains"
    /\ ret' = [done |-> TRUE, err |-> Nil,
               out |-> contains(call.input.s, call.input.substr)]
    /\ pc' = "done"
    /\ UNCHANGED fnFrame
    /\ UNCHANGED credVars

CallIsRetryableError ==
    /\ pc = "start"
    /\ call.op = "isRetryableError"
    /\ ret' = [done |-> TRUE, err |-> Nil, out |-> isRetryableError(call.input)]
    /\ pc' = "done"
    /\ UNCHANGED fnFrame
    /\ UNCHANGED credVars

(***************************************************************************)
(* writeRequest, the canonical request of the signer: its query string,    *)
(* its headers block and its signed-headers list.  A query is a set of     *)
(* (key, value) pairs, a header map a set of names each with its set of    *)
(* values; all strings are sequences of code points.                       *)
(***************************************************************************)
MaxQueryPairs == 3

\* The writing loop shared by the three writers: the elements of a in
\* order, sep between two of them.
RECURSIVE Join(_, _)
Join(a, sep) ==
    IF a = << >> THEN << >>
    ELSE IF Len(a) = 1 THEN a[1]
    ELSE a[1] \o sep \o Join(Tail(a), sep)

writeQuery(query) ==
    LET a == sortStrings({QueryEscape(p.k) \o <<61>> \o
                              (IF p.v = << >> THEN << >> ELSE QueryEscape(p.v)) :
                          p \in query})
    IN  [a |-> a, written |-> Join(a, <<38>>)]

writeHeader(header) ==
    LET a == sortStrings({ToLower(h.k) \o <<58>> \o Join(sortStrings(h.v), <<44>>) :
                          h \in header})
    IN  [a |-> a, written |-> Join(a, <<10>>)]

writeHeaderList(header) ==
    LET a == sortStrings({ToLower(h.k) : h \in header})
    IN  [a |-> a, written |-> Join(a, <<59>>)]

\* r.Header.Set("host", r.Host): the key is stored as "Host".
writeRequest(r) ==
    LET header == {h \in r.header : h.k # <<72, 111, 115, 116>>}
                      \cup {[k |-> <<72, 111, 115, 116>>, v |-> {r.host}]}
    IN  [header |-> header,
         query |-> writeQuery(r.query),
         headers |-> writeHeader(header),
         headerList |-> writeHeaderList(header)]

CallWriteRequest ==
    /\ pc = "start"
    /\ call.op = "writeRequest"
    /\ ret' = [done |-> TRUE, err |-> Nil, out |-> writeRequest(call.input)]
    /\ pc' = "done"
    /\ UNCHANGED fnFrame
    /\ UNCHANGED credVars

FnCalls ==
    SignCalls \cup EncodePathCalls
    \cup {Call("contains", [s |-> x, substr |-> y], 0) :
            x \in SeqsUpTo({97, 98}, MaxStrLen), y \in SeqsUpTo({97, 98}, MaxStrLen)}
    \cup {Call("isRetryableError", e, 0) :
            e \in {"status code: 500 Internal Server Error: InternalError",
                   "status code: 503 Service Unavailable",
                   "status code: 403 Forbidden: AccessDenied",
                   "status code: 400 Bad Request: RequestTimeout: no data before timeout",
                   "failed after 3 retries: status code: 500 Internal Server Error",
                   "EOF", "unexpected EOF", "Put \"http://s3\": EOF",
                   "read tcp: connection reset by peer", "connection reset",
                   "dial tcp: connection refused", "timeout", "i/o timeout",
                   "context deadline exceeded (Client.Timeout exceeded)",
                   "ETag not found in response", "status code: ", "eof"}}
    \cup {Call("uploadPartWithRetry", k, k) : k \in 1..MaxAttempt}
    \cup {Call("CreateUploadPolicies", u, 0) : u \in UploadConfigs}
    \cup {Call("GeneratePresignedURL", [ExtraHeaders |-> H], 0) :
            H \in SUBSET ExtraHeaderNames}
    \cup {Call("writeRequest", [host |-> <<104>>, header |-> {}, query |-> Q], 0) :
            Q \in {q \in SUBSET {[k |-> k, v |-> v] :
                                    k \in {<<97>>, <<97, 45>>, <<97, 32>>, <<98>>},
                                    v \in {<< >>, <<120>>, <<47>>}} :
                     Cardinality(q) \in 1..MaxQueryPairs}}
    \cup {Call("writeRequest", [host |-> <<104>>, header |-> H, query |-> {}], 0) :
            H \in {{[k |-> k, v |-> v] : k \in K} :
                     K \in SUBSET {<<65>>, <<65, 45, 66>>, <<65, 48>>, <<65, 98>>,
                                   <<72, 111, 115, 116>>},
                     v \in {{<<49>>}, {<<49>>, <<48>>}}}}

InitFn ==
    /\ initMode = ""
    /\ call \in FnCalls
    /\ CredIdle
    /\ pc = "start"
    /\ ret = [done |-> FALSE, err |-> Nil]
    /\ requests = << >>
    /\ imds = FALSE
    /\ loc = NoLocals
    /\ completedParts = << >>
    /\ err2 = Nil
    /\ rs = NoRetry
    /\ ParIdle
    /\ partErrs = {}

NextFn ==
    \/ CallSignRequest
    \/ CallEncodePath
    \/ CallBuildUploadSign
    \/ CallGeneratePresignedURL
    \/ CallWaitTime
    \/ CallContains
    \/ CallIsRetryableError
    \/ CallWriteRequest

SpecFn == InitFn /\ [][NextFn]_vars

(***************************************************************************)
(* C13.  After signRequest on a request that came without an               *)
(* x-amz-content-sha256 header, the header is the hash of the request's    *)
(* body (the empty-string hash only when there is no body); and for every  *)
(* request the payload hash of the signed canonical request equals the     *)
(* header the request carries.                                             *)
(***************************************************************************)
C13_PayloadHashIsHeader ==
    (pc = "done" /\ call.op \in SigningOps) =>
        /\ ret.built.ContentSha256 = "" =>
              ret.signed.req.ContentSha256 =
                  Sha256Hex(IF ret.built.Body.nil THEN "" ELSE ret.built.Body.data)
        /\ ret.signed.payloadHash = ret.signed.req.ContentSha256

(***************************************************************************)
(* C14.  The progress callback of FileUploadMultipart is called once per   *)
(* completed part; the uploaded_bytes it reports never decrease and never  *)
(* exceed total_bytes; in sequential mode they are the sum of the sizes of *)
(* the parts uploaded so far, in parallel mode min(completed_count *       *)
(* part_size, total_size); and the last call of a successful upload        *)
(* reports uploaded_bytes = total_bytes.  (The calls are made by the one   *)
(* goroutine that runs the part loop or the collector, so no two overlap.) *)
(***************************************************************************)
RECURSIVE SumOfPartSizes(_)
SumOfPartSizes(n) ==
    IF n = 0 THEN 0 ELSE SumOfPartSizes(n - 1) + PartInput(loc, n).Size

ProgressSoFar ==
    LET P == loc.onProgress
    IN  /\ Len(P) = Len(completedParts)
        /\ \A i \in DOMAIN P :
            /\ P[i].TotalBytes = loc.totalSize
            /\ P[i].UploadedBytes <= P[i].TotalBytes
            /\ i > 1 => P[i - 1].UploadedBytes <= P[i].UploadedBytes
            /\ IF loc.concurrency <= 1
               THEN P[i].UploadedBytes = SumOfPartSizes(i)
               ELSE P[i].UploadedBytes = Min(i * loc.partSize, loc.totalSize)

C14_ProgressReports ==
    IsFUM =>
        /\ ProgressSoFar
        /\ (ret.done /\ ret.err = Nil) =>
              /\ loc.onProgress # << >>
              /\ loc.onProgress[Len(loc.onProgress)].UploadedBytes = loc.totalSize

(***************************************************************************)
(* C15.  As stated: for every s without a percent sign,                    *)
(* encodePath(encodePath(s)) = encodePath(s).                              *)
(***************************************************************************)
EncodedPath == pc = "done" /\ call.op = "encodePath"

HasPercent(str) == \E i \in DOMAIN str : str[i] = 37

C15_IdempotentWithoutPercent ==
    (EncodedPath /\ ~HasPercent(call.input)) =>
        encodePath(ret.out) = ret.out

(***************************************************************************)
(* C15, amended.  encodePath is idempotent exactly on the inputs made only *)
(* of A-Z a-z 0-9 - _ . ~ and /, which it returns unchanged: for every     *)
(* other input, with or without a percent sign, the result holds a '%'     *)
(* and the second application turns each into %25, so the two differ.      *)
(***************************************************************************)
OnlyUnreserved(str) ==
    \A i \in DOMAIN str :
        str[i] \in (65..90) \cup (97..122) \cup (48..57) \cup {45, 95, 46, 126, 47}

C15_IdempotentIffUnreserved ==
    EncodedPath =>
        /\ (encodePath(ret.out) = ret.out) <=> OnlyUnreserved(call.input)
        /\ OnlyUnreserved(call.input) => ret.out = call.input
        /\ ~OnlyUnreserved(call.input) => HasPercent(ret.out)

\* C15: "a b" was encoded, holds no percent sign, and encoding the result
\* again gives something else.
C15_Witness ==
    /\ EncodedPath
    /\ call.input = <<65, 32, 122>>
    /\ ret.out = <<65, 37, 50, 48, 122>>
    /\ encodePath(ret.out) = <<65, 37, 50, 53, 50, 48, 122>>

(***************************************************************************)
(* C16.  encodePath returns, character by character in order, the          *)
(* character itself when it is A-Z, a-z, 0-9, '-', '_', '.', '~' or '/',   *)
(* and otherwise '%' and two uppercase hex digits for each UTF-8 byte of   *)
(* the character; so the output is made of unreserved characters, slashes  *)
(* and %HH triplets, keeps every slash, and an input of unreserved         *)
(* characters and slashes comes back unchanged.                            *)
(***************************************************************************)
UpperHexDigit(n) == IF n < 10 THEN 48 + n ELSE 55 + n

RECURSIVE PercentTriplets(_)
PercentTriplets(bytes) ==
    IF bytes = << >> THEN << >>
    ELSE <<37, UpperHexDigit(Head(bytes) \div 16), UpperHexDigit(Head(bytes) % 16)>>
         \o PercentTriplets(Tail(bytes))

RECURSIVE Escaped(_)
Escaped(str) ==
    IF str = << >> THEN << >>
    ELSE (IF OnlyUnreserved(<<Head(str)>>) THEN <<Head(str)>>
          ELSE PercentTriplets(EncodeRune(Head(str))))
         \o Escaped(Tail(str))

Slashes(str) == Cardinality({i \in DOMAIN str : str[i] = 47})

UpperHexDigits == (48..57) \cup (65..70)

C16_EncodePathEscapes ==
    EncodedPath =>
        /\ ret.out = Escaped(call.input)
        /\ \A i \in DOMAIN ret.out :
              \/ OnlyUnreserved(<<ret.out[i]>>)
                 /\ ~(i > 1 /\ ret.out[i - 1] = 37)
                 /\ ~(i > 2 /\ ret.out[i - 2] = 37)
              \/ ret.out[i] = 37 /\ i + 2 <= Len(ret.out)
              \/ i > 1 /\ ret.out[i - 1] = 37 /\ ret.out[i] \in UpperHexDigits
              \/ i > 2 /\ ret.out[i - 2] = 37 /\ ret.out[i] \in UpperHexDigits
        /\ Slashes(ret.out) = Slashes(call.input)
        /\ OnlyUnreserved(call.input) => ret.out = call.input

\* C16: "/" U+00E9 "z" was encoded as /%C3%A9z.
C16_Witness ==
    /\ EncodedPath
    /\ call.input = <<47, 233, 122>>
    /\ ret.out = <<47, 37, 67, 51, 37, 65, 57, 122>>

(***************************************************************************)
(* C17.  As stated: the conditions of the POST policy are, in this order,  *)
(* bucket, key, Content-Type, ["content-length-range", N, N] with N the    *)
(* file size, x-amz-credential, x-amz-algorithm, x-amz-date, then          *)
(* Content-Disposition if supplied, then acl if supplied, then one         *)
(* single-key condition per metadata entry in the caller's insertion       *)
(* order.                                                                  *)
(***************************************************************************)
PolicyBuilt == pc = "done" /\ call.op = "CreateUploadPolicies"

ConditionsBeforeMetaData(u) ==
    <<  <<"bucket", u.BucketName>>, <<"key", u.ObjectKey>>,
        <<"Content-Type", u.ContentType>>,
        <<"content-length-range", u.FileSize, u.FileSize>>,
        <<"x-amz-credential", "credential">>,
        <<"x-amz-algorithm", "AWS4-HMAC-SHA256">>,
        <<"x-amz-date", "amzdate">>  >>
    \o (IF u.ContentDisposition # ""
        THEN << <<"Content-Disposition", u.ContentDisposition>> >> ELSE << >>)
    \o (IF u.ACL # "" THEN << <<"acl", u.ACL>> >> ELSE << >>)

C18_SignedHeadersLowercased ==
    (pc = "done" /\ call.op = "GeneratePresignedURL") =>
        LET names == ret.out.canonicalHeaders
        IN  /\ {names[i] : i \in DOMAIN names}
                  = {ToLower(h) : h \in call.input.ExtraHeaders} \cup {hostHeader}
            /\ ret.out.signedHeadersStr = JoinSemicolon(names)
            /\ ret.out.signedHeadersForURL = JoinSemicolon(names)

(***************************************************************************)
(* C19.  Among concurrent callers of renewIAMToken at most one is in the   *)
(* instance-metadata fetch at any time, and a caller that returns without  *)
(* error once a refresh has fetched new credentials finds the credential   *)
(* and expiry of a completed refresh: none that a refresh has only partly  *)
(* stored.                                                                 *)
(***************************************************************************)
Fetching(c) == callers[c].pc \in {"imds1", "imds2", "imds3"}

FetchExclusive == \A c, d \in Callers : (Fetching(c) /\ Fetching(d)) => c = d

RefreshFetched == \E i \in DOMAIN imdsLog : imdsLog[i].step = 3 /\ imdsLog[i].ok

ReturnsNil(c) ==
    /\ callers[c].pc \in {"checkExpiry", "writeSecretKey"}
    /\ callers'[c].pc = "sign"

PartlyStored ==
    \E d \in Callers :
        callers[d].pc \in {"writeToken", "writeAccessKey", "writeSecretKey"}

C19_OneFetchAndWholeRefresh ==
    /\ []FetchExclusive
    /\ [][\A c \in Callers :
            (ReturnsNil(c) /\ RefreshFetched) => ~PartlyStored']_vars

(***************************************************************************)
(* C20.  In parallel mode, once a failed part has set the cancellation     *)
(* signal, the producer enqueues no further part and no worker takes a     *)
(* part from the queue to upload it: from then on the queue of parts       *)
(* neither grows nor shrinks.                                              *)
(***************************************************************************)
Cancelled == IsFUM /\ ctxDone /\ partErrs # {}

C20_NoWorkAfterCancel ==
    [][Cancelled =>
          /\ producer'.partNum = producer.partNum
          /\ partsChan'.buf = partsChan.buf]_vars

(***************************************************************************)
(* C21.  In parallel mode with concurrency N the producer enqueues the     *)
(* part numbers 1..total_parts in ascending order, the queue never holds   *)
(* more than N parts, at most N UploadPart calls are in progress, each     *)
(* part number is held by one worker only, and no part is uploaded         *)
(* successfully twice.                                                     *)
(***************************************************************************)
InParallel == IsFUM /\ loc.concurrency > 1 /\ producer.pc # "idle"

Uploading == {w \in BagToSet(workers) : w.pc = "retry"}

PartsDone ==
    {resultsChan.buf[i].PartNumber : i \in DOMAIN resultsChan.buf}
    \cup {completedParts[i].PartNumber : i \in DOMAIN completedParts}

C21_OneWorkerPerPart ==
    InParallel =>
        /\ producer.partNum \in 1..(loc.totalParts + 1)
        /\ Len(partsChan.buf) <= loc.concurrency
        /\ \A i \in DOMAIN partsChan.buf :
              partsChan.buf[i] = producer.partNum - Len(partsChan.buf) + i - 1
        /\ BagCardinality(workers) <= loc.concurrency
        /\ \A w \in Uploading :
              /\ CopiesIn(w, workers) = 1
              /\ w.rs.input.PartNumber < producer.partNum - Len(partsChan.buf)
              /\ w.rs.input.PartNumber \notin PartsDone
              /\ \A v \in Uploading :
                    v.rs.input.PartNumber = w.rs.input.PartNumber => v = w
        /\ Len(resultsChan.buf) + Len(completedParts) = Cardinality(PartsDone)
        /\ \A p \in PartsAttempted :
              Cardinality({i \in PartAttempts(p) : requests[i].err = Nil}) <= 1

\* C21: two workers are uploading parts 1 and 2 while part 3 waits in the
\* queue.
C21_Witness ==
    /\ InParallel
    /\ loc.totalParts = 3
    /\ partsChan.buf = <<3>>
    /\ {w.rs.input.PartNumber : w \in Uploading} = {1, 2}

(***************************************************************************)
(* C22.  Every goroutine of the call is scheduled again and again and      *)
(* every HTTP request returns: no step that stays possible is put off      *)
(* forever.                                                                *)
(***************************************************************************)
SpecFair == Spec /\ WF_vars(Next)

(***************************************************************************)
(* C22.  Under this scheduling every FileUploadMultipart call whose        *)
(* Initiate succeeded returns, and the producer, the workers and the       *)
(* channel-closing goroutine of a parallel upload all exit; the call has   *)
(* then reached exactly one of Complete and Aborted, and it is Aborted     *)
(* whenever a part failed for good (non-retryable error or retries         *)
(* exhausted) or Complete failed.                                          *)
(***************************************************************************)
GoroutinesExited ==
    /\ producer.pc = "exit"
    /\ \A w \in BagToSet(workers) : w.pc = "exit"
    /\ closer = "exit"

CompleteFailed ==
    \E i \in Sent("Complete") : requests[i].err # Nil

C22_ReturnsCompleteOrAborted ==
    /\ (IsFUM /\ loc.initiated) ~> ret.done
    /\ InParallel ~> GoroutinesExited
    /\ [](ReturnedAfterInitiate =>
            /\ CompleteSucceeded <=> ~loc.abortCalled
            /\ partErrs # {} => (loc.abortCalled /\ ~CompleteSucceeded)
            /\ CompleteFailed => loc.abortCalled)

(***************************************************************************)
(* C23.  For every retry index k from 1 to max_retries, however large, the *)
(* wait before the k-th retry is min(2^(k-1) * 100 ms, 5 s): never below   *)
(* 100 ms, never above 5 s, never negative.                                *)
(***************************************************************************)
\* The int64 of ms milliseconds, for ms up to 5000: ms * 15625 * 64 ns.
Milliseconds(ms) ==
    LET x == ms * 15625
    IN  <<(x % 1024) * 64, (x \div 1024) % 65536, (x \div 1024) \div 65536, 0>>

ExpectedWaitMs(k) == IF k >= 7 THEN 5000 ELSE Min((2 ^ (k - 1)) * 100, 5000)

C23_BackoffIsCappedDoubling ==
    (pc = "done" /\ call.op = "uploadPartWithRetry") =>
        /\ ret.waitTime = Milliseconds(ExpectedWaitMs(call.input))
        /\ ret.waitTime[4] < 32768
        /\ ~DurationGreater(Milliseconds(100), ret.waitTime)
        /\ ~DurationGreater(ret.waitTime, Milliseconds(5000))

(***************************************************************************)
(* C24.  contains(s, sub) is the substring test for all strings s and sub  *)
(* (sub equal to s, a prefix, a suffix, in the middle, absent, longer than *)
(* s), and isRetryableError is true exactly when the error text holds      *)
(* "status code: 5", "timeout", "connection reset" or "EOF" somewhere.     *)
(***************************************************************************)
\* sub occurs in str: some stretch str[i..j] of str is sub.
Occurs(sub, str) ==
    \E i \in 1..(Len(str) + 1) : \E j \in (i - 1)..Len(str) : SubSeq(str, i, j) = sub

C24_ContainsIsSubstring ==
    /\ (pc = "done" /\ call.op = "contains") =>
          (ret.out <=> Occurs(call.input.substr, call.input.s))
    /\ (pc = "done" /\ call.op = "isRetryableError") =>
          (ret.out <=> \E sub \in {"status code: 5", "timeout", "connection reset", "EOF"} :
                          Occurs(sub, call.input))

\* C24: "b" was found in the middle of "aba", where it is neither a prefix
\* nor a suffix.
C24_Witness ==
    /\ pc = "done"
    /\ call.op = "contains"
    /\ call.input.s = <<97, 98, 97>>
    /\ call.input.substr = <<98>>
    /\ ret.out

(***************************************************************************)
(* C25.  For a body of total_size >= 1 and an accepted part size, the      *)
(* number of parts is ceil(total_size / part_size); part i is the byte     *)
(* range [(i-1) * part_size, min(i * part_size, total_size)) of the body:  *)
(* every part but the last has part_size bytes, the last between 1 and     *)
(* part_size, and the parts in order make up the whole body; the           *)
(* sequential and the parallel path slice alike.  (Stated on the slice     *)
(* each part's first UploadPart request carries.)                          *)
(***************************************************************************)
FirstAttempt(p) == CHOOSE i \in PartAttempts(p) : \A j \in PartAttempts(p) : i <= j

Sliced == IsFUM /\ loc.totalSize >= 1 /\ loc.totalParts <= MaxParts

C25_PartsTileTheBody ==
    Sliced =>
        /\ (loc.totalParts - 1) * loc.partSize < loc.totalSize
        /\ loc.totalSize <= loc.totalParts * loc.partSize
        /\ \A p \in PartsAttempted :
            LET r == requests[FirstAttempt(p)]
            IN  /\ p \in 1..loc.totalParts
                /\ r.lo = (p - 1) * loc.partSize
                /\ r.hi = Min(p * loc.partSize, loc.totalSize)
                /\ r.hi - r.lo \in 1..loc.partSize
                /\ p < loc.totalParts => r.hi - r.lo = loc.partSize
                /\ p = 1 => r.lo = 0
                /\ p > 1 /\ (p - 1) \in PartsAttempted =>
                       r.lo = requests[FirstAttempt(p - 1)].hi
                /\ p = loc.totalParts => r.hi = loc.totalSize

\* C25: a parallel upload of part_size + 1 bytes has sent two parts, the
\* second of size 1.
C25_Witness ==
    /\ Sliced
    /\ loc.concurrency > 1
    /\ loc.totalSize = loc.partSize + 1
    /\ loc.totalParts = 2
    /\ PartsAttempted = {1, 2}
    /\ requests[FirstAttempt(2)].hi - requests[FirstAttempt(2)].lo = 1


(***************************************************************************)
(* C26: the canonical query string lists the (key, value) pairs sorted by  *)
(* percent-encoded key and, among equal keys, by percent-encoded value,    *)
(* whatever the set of pairs, one key being a proper prefix of another     *)
(* included; a pair without a value is written "key=".                     *)
(***************************************************************************)
QueryWritten == pc = "done" /\ call.op = "writeRequest" /\ call.input.query # {}

Rendered(p) == QueryEscape(p.k) \o <<61>> \o QueryEscape(p.v)

PairBefore(p, q) ==
    \/ StringLess(QueryEscape(p.k), QueryEscape(q.k))
    \/ /\ QueryEscape(p.k) = QueryEscape(q.k)
       /\ StringLess(QueryEscape(p.v), QueryEscape(q.v))

Position(a, s) == CHOOSE i \in DOMAIN a : a[i] = s

HeadersWritten ==
    pc = "done" /\ call.op = "writeRequest" /\ Cardinality(ret.out.header) > 1

\* The name of a line "name:values" of the headers block.
NameOf(line) ==
    LET colon == CHOOSE i \in DOMAIN line :
                     line[i] = 58 /\ \A j \in 1..(i - 1) : line[j] # 58
    IN  SubSeq(line, 1, colon - 1)

C27_HeaderListMatchesBlock ==
    HeadersWritten =>
        LET block == ret.out.headers.a
            list == ret.out.headerList.a
        IN  /\ Len(block) = Cardinality(ret.out.header)
            /\ Len(list) = Len(block)
            /\ \A h \in ret.out.header : \E i \in DOMAIN block : NameOf(block[i]) = ToLower(h.k)
            /\ \A i, j \in DOMAIN block :
                   i < j => StringLess(NameOf(block[i]), NameOf(block[j]))
            /\ \A i \in DOMAIN block : NameOf(block[i]) = list[i]

(***************************************************************************)
(* C28.  When several callers invoke renewIAMToken on the same expired     *)
(* credential and the first refresh succeeds with an expiry in the future, *)
(* the fetch sequence runs once: a caller that acquires s3.mu after that   *)
(* refresh completed, that is, finds under the mutex a credential that has *)
(* not expired, returns without fetching again.                            *)
(***************************************************************************)
C28_NoFetchAfterRefresh ==
    \A c \in Callers :
        Fetching(c) => Expired(callers[c].before.expiry)

(***************************************************************************)
(* C29.  As stated: FileUploadMultipart on an empty body issues Initiate,  *)
(* no UploadPart and no Complete request, then issues an abort for the     *)
(* allocated upload id and returns an error; it never reports success for  *)
(* an empty body.                                                          *)
(***************************************************************************)
EmptyBody == IsFUM /\ ~call.input.Body.nil /\ call.input.Body.size = 0

OpsSent == [i \in DOMAIN requests |-> requests[i].op]

C29_EmptyBodyAbortIssued ==
    /\ (EmptyBody /\ ret.done) => ret.err # Nil
    /\ (EmptyBody /\ ReturnedAfterInitiate) =>
          /\ OpsSent = <<"Initiate", "Abort">>
          /\ AbortIssued
          /\ ret.err = "parts list cannot be empty"

\* C29, amended: FileUploadMultipart on an empty body issues Initiate, no
\* UploadPart and no Complete request, then calls AbortMultipartUpload for
\* the allocated upload id, whose DELETE is issued unless the credential
\* refresh at the start of the abort failed, and returns an error; it never
\* reports success for an empty body.
C29_EmptyBodyAbortCalled ==
    /\ (EmptyBody /\ ret.done) => ret.err # Nil
    /\ (EmptyBody /\ ReturnedAfterInitiate) =>
          /\ ret.err = "parts list cannot be empty"
          /\ loc.abortCalled
          /\ \/ OpsSent = <<"Initiate", "Abort">> /\ AbortIssued
             \/ /\ OpsSent = <<"Initiate">>
                /\ initMode = "iam"
                /\ loc.abortErr = IMDSError

\* C29: a parallel upload of an empty body returned after Initiate and the
\* abort.
C29_Witness ==
    /\ EmptyBody
    /\ ReturnedAfterInitiate
    /\ loc.concurrency > 1
    /\ loc.totalParts = 0
    /\ OpsSent = <<"Initiate", "Abort">>
    /\ ret.err = "parts list cannot be empty"

(***************************************************************************)
(* C30.  With no failing part, the part list handed to                     *)
(* CompleteMultipartUpload and the UploadPart requests issued are          *)
(* determined by the body and the part size alone: the parallel path, for  *)
(* any concurrency and any interleaving of its workers, yields the same    *)
(* ordered list of (part number, ETag) pairs and the same requests (each   *)
(* part number once, with the same bytes) as the sequential path.          *)
(***************************************************************************)
NoFailingPart ==
    /\ IsFUM
    /\ partErrs = {}
    /\ err2 = Nil
    /\ \A i \in Sent("UploadPart") : requests[i].err = Nil

\* The bytes of part p of the body, by the body and the part size alone.
BytesOf(p) ==
    NewReader((p - 1) * loc.partSize, Min(p * loc.partSize, call.input.Body.size))

PartsOf == 1 .. ((call.input.Body.size + loc.partSize - 1) \div loc.partSize)

C30_ParallelEqualsSequential ==
    NoFailingPart =>
        /\ \A i \in Sent("UploadPart") :
               LET r == requests[i]
               IN  /\ r.part \in PartsOf
                   /\ r.lo = BytesOf(r.part).lo
                   /\ r.hi = BytesOf(r.part).hi
                   /\ PartAttempts(r.part) = {i}
        /\ \A i \in Sent("Complete") :
               /\ PartsAttempted = PartsOf
               /\ requests[i].parts =
                      [p \in PartsOf |-> [PartNumber |-> p, ETag |-> ETagOf(BytesOf(p))]]

\* C30: a parallel upload without a failing part sent part 2 before part 1
\* and has issued Complete.
C30_Witness ==
    /\ NoFailingPart
    /\ loc.concurrency > 1
    /\ Sent("Complete") # {}
    /\ \E i, j \in Sent("UploadPart") : i < j /\ requests[i].part > requests[j].part

====
